---- MODULE Spec2Model ----
(***************************************************************************)
(* Model of the hash table (src/hash/hashtable.h) and the hash set built   *)
(* on it (src/data_structures/hash/hashset.h), with the integer key        *)
(* policy INT_HASH_FUNC.                                                   *)
(*                                                                         *)
(* A table is a record [buckets, size, capacity]: buckets maps each index  *)
(* 0..capacity-1 to its chain, a sequence of entries [key, value] with the *)
(* chain head first.  A value is an opaque pointer: 0 is NULL, any other   *)
(* number a non-null pointer.  The result of malloc is an input of the     *)
(* operations that allocate.                                               *)
(***************************************************************************)
EXTENDS Integers, Sequences, FiniteSets

\* ------------------------------------------------------------ bounds

\* The table's keys are the first NumKeys of 0, 8, 16, 1, 2, 3, ...: the first
\* three share bucket 0 at capacity 8 and spread over two buckets at 16.
NumKeys == 7
\* Values are the pointers 0 (NULL) .. MaxVal.  The first NumValKeys keys are
\* put with every value, the other keys with MaxVal only.
MaxVal == 1
NumValKeys == 2
\* Requested initial capacities of the table are 0..MaxInitCap.
MaxInitCap == 9
\* Set members are the first NumSetKeys of the same keys.
NumSetKeys == 3
\* The sets A and B are initialised with capacities 8..MaxSetCap.
MaxSetCap == 9

\* The heap's elements are the pointers 1..NumPtrs.
NumPtrs == 4
\* A push is made while the heap holds fewer than MaxHeapLen elements.
MaxHeapLen == 4

\* The array given to a heap holds up to MaxArrLen elements.
MaxArrLen == 4

\* Each of the two heaps that are merged holds up to MaxMergeLen elements.
MaxMergeLen == 2

\* The keys of the table whose insertions are recorded are the first
\* NumChainKeys of the table's keys.
NumChainKeys == 6

\* The ints given to the comparators are -MaxSmallInt..MaxSmallInt and the
\* MaxSmallInt + 1 ints at each end of the range of int.
MaxSmallInt == 2
NumValidPtrs == 5
NumDynElems == 2
MaxDynLen == 5
MaxPlayers == 3
MaxPlayerId == 4
NumAges == 3

\* The elements of the stack and of the queue are the pointers 1..NumElems.
NumElems == 3
\* A push is made while the stack holds fewer than MaxStackLen elements.
MaxStackLen == 5
\* An enqueue is made while the queue holds fewer than MaxQueueLen elements.
MaxQueueLen == 4

KeyAt(i) == IF i <= 3 THEN 8 * (i - 1) ELSE i - 3
Keys == { KeyAt(i) : i \in 1 .. NumKeys }
Vals == 0 .. MaxVal
ValsFor(k) == IF k \in { KeyAt(i) : i \in 1 .. NumValKeys } THEN Vals ELSE {MaxVal}
InitCaps == 0 .. MaxInitCap
SetCaps == 8 .. MaxSetCap
SetKeys == { KeyAt(i) : i \in 1 .. NumSetKeys }
ChainKeys == { KeyAt(i) : i \in 1 .. NumChainKeys }

\* ------------------------------------------------------------ constants

NULL == 0
HASHTABLE_DEFAULT_SIZE == 16
HASHTABLE_MIN_SIZE == 8
HASHTABLE_GROWTH_FACTOR == 2
\* HASHTABLE_LOAD_FACTOR 0.75 as the fraction LOAD_NUM / LOAD_DEN
LOAD_NUM == 3
LOAD_DEN == 4
\* A = 2654435761 = HASH_A_HI * 2^16 + HASH_A_LO (0x9E37, 0x79B1)
HASH_A_HI == 40503
HASH_A_LO == 31153
TWO16 == 65536

\* ------------------------------------------------------------ key policy

\* A mod capacity, computed from the two 16-bit halves of A.
HashAMod(capacity) ==
    (((HASH_A_HI % capacity) * (TWO16 % capacity)) + HASH_A_LO) % capacity

\* hash_int: ((size_t)val * A) % capacity.  For 0 <= val with val * A < 2^64
\* the product does not wrap, so the result is ((val mod c) * (A mod c)) mod c.
hash_int(key, capacity) == ((key % capacity) * HashAMod(capacity)) % capacity

\* hash_int_equals
hash_int_equals(key1, key2) == key1 = key2

\* ------------------------------------------------------------ entries, chains

Entry(k, v) == [key |-> k, value |-> v]

\* ChainFind that compares the chain head only (the loop never advances).
ChainFind_HeadOnly(chain, k) ==
    IF Len(chain) > 0 /\ hash_int_equals(chain[1].key, k) THEN 1 ELSE 0

\* Position in the chain of the first entry whose key equals k; 0 if none
\* (the while loop of put, get and remove).
ChainFind(chain, k) ==
    IF \E i \in 1 .. Len(chain) : hash_int_equals(chain[i].key, k)
    THEN CHOOSE i \in 1 .. Len(chain) :
            /\ hash_int_equals(chain[i].key, k)
            /\ \A j \in 1 .. (i - 1) : ~hash_int_equals(chain[j].key, k)
    ELSE 0

\* ChainSplice that drops the entries behind position i too.
ChainSplice_DropRest(chain, i) == SubSeq(chain, 1, i - 1)

\* The chain without its entry at position i (prev->next = current->next).
ChainSplice(chain, i) ==
    [j \in 1 .. (Len(chain) - 1) |-> IF j < i THEN chain[j] ELSE chain[j + 1]]

\* ------------------------------------------------------------ table

EmptyBuckets(capacity) == [i \in 0 .. (capacity - 1) |-> << >>]

\* The table after free, or after the process has exited.
NoTable == [buckets |-> << >>, size |-> 0, capacity |-> 0]

hashtable_init(initial_capacity) ==
    LET cap == IF initial_capacity < HASHTABLE_MIN_SIZE
               THEN HASHTABLE_MIN_SIZE ELSE initial_capacity
    IN  [buckets |-> EmptyBuckets(cap), size |-> 0, capacity |-> cap]

\* The entries of buckets i, i+1, ... capacity-1 in the order the rehash loop
\* of hashtable_resize visits them.
RECURSIVE EntriesFrom(_, _)
EntriesFrom(t, i) ==
    IF i >= t.capacity THEN << >>
    ELSE t.buckets[i] \o EntriesFrom(t, i + 1)

\* RehashEntry that does not link the old chain behind the entry.
RehashEntry_DropChain(t, e) ==
    LET new_index == hash_int(e.key, t.capacity)
    IN  [t EXCEPT !.buckets[new_index] = <<e>>, !.size = @ + 1]

\* RehashEntry that does not count the entry.
RehashEntry_NoCount(t, e) ==
    LET new_index == hash_int(e.key, t.capacity)
    IN  [t EXCEPT !.buckets[new_index] = <<e>> \o @]

\* RehashEntry that computes the index with the capacity before the resize.
RehashEntry_OldCapacity(t, e) ==
    LET new_index == hash_int(e.key, t.capacity \div HASHTABLE_GROWTH_FACTOR)
    IN  [t EXCEPT !.buckets[new_index] = <<e>> \o @, !.size = @ + 1]

\* One iteration of the rehash loop: the entry is linked at the head of its
\* new bucket and size is incremented.
RehashEntry(t, e) ==
    LET new_index == hash_int(e.key, t.capacity)
    IN  [t EXCEPT !.buckets[new_index] = <<e>> \o @, !.size = @ + 1]

RECURSIVE RehashAll(_, _, _)
RehashAll(t, es, n) ==
    IF n > Len(es) THEN t
    ELSE RehashAll(RehashEntry(t, es[n]), es, n + 1)

hashtable_resize(t, new_capacity) ==
    RehashAll([buckets |-> EmptyBuckets(new_capacity), size |-> 0,
               capacity |-> new_capacity],
              EntriesFrom(t, 0), 1)

\* LoadExceeded with a strict comparison.
LoadExceeded_Strict(t) == t.size * LOAD_DEN > LOAD_NUM * t.capacity

\* (double)size >= load_factor_threshold * capacity
LoadExceeded(t) == t.size * LOAD_DEN >= LOAD_NUM * t.capacity

\* PutResize that grows by adding the growth factor.
PutResize_Add(t) ==
    IF LoadExceeded(t)
    THEN hashtable_resize(t, t.capacity + HASHTABLE_GROWTH_FACTOR)
    ELSE t

\* The first statement of hashtable_put.
PutResize(t) ==
    IF LoadExceeded(t)
    THEN hashtable_resize(t, t.capacity * HASHTABLE_GROWTH_FACTOR)
    ELSE t

\* PutUpdate that leaves the old value.
PutUpdate_NoStore(t, index, i, value) == t

\* current->value = value
PutUpdate(t, index, i, value) == [t EXCEPT !.buckets[index][i].value = value]

\* PutInsert that links the new entry at the tail of its chain.
PutInsert_AtTail(t, index, key, value) ==
    [t EXCEPT !.buckets[index] = @ \o <<Entry(key, value)>>, !.size = @ + 1]

\* The new entry is linked at the head of its chain and size is incremented.
PutInsert(t, index, key, value) ==
    [t EXCEPT !.buckets[index] = <<Entry(key, value)>> \o @, !.size = @ + 1]

\* hashtable_put that counts the entry before it allocates it.
hashtable_put_CountFirst(t, key, value, entry_ok) ==
    LET t1 == PutResize(t)
        index == hash_int(key, t1.capacity)
        i == ChainFind(t1.buckets[index], key)
    IN  IF i > 0
        THEN [t |-> PutUpdate(t1, index, i, value), ret |-> TRUE, copies |-> 0]
        ELSE IF ~entry_ok
        THEN [t |-> [t1 EXCEPT !.size = @ + 1], ret |-> FALSE, copies |-> 0]
        ELSE [t |-> PutInsert(t1, index, key, value), ret |-> TRUE, copies |-> 1]

\* hashtable_put.  entry_ok: malloc of the entry succeeds (hashtable_create_entry
\* returns NULL otherwise).  The result gives the table, the return value and
\* the number of key copies made.
hashtable_put(t, key, value, entry_ok) ==
    LET t1 == PutResize(t)
        index == hash_int(key, t1.capacity)
        i == ChainFind(t1.buckets[index], key)
    IN  IF i > 0
        THEN [t |-> PutUpdate(t1, index, i, value), ret |-> TRUE, copies |-> 0]
        ELSE IF ~entry_ok
        THEN [t |-> t1, ret |-> FALSE, copies |-> 0]
        ELSE [t |-> PutInsert(t1, index, key, value), ret |-> TRUE, copies |-> 1]

\* hashtable_put where a failed copy of the key lets the call go on.
hashtable_put_exits_KeyCopyReturns(t, key, buckets_ok, entry_ok, key_ok) ==
    LoadExceeded(t) /\ ~buckets_ok

\* hashtable_put ends the process with exit(EXIT_FAILURE) instead of returning:
\* buckets_ok, entry_ok and key_ok say whether the calloc of hashtable_resize,
\* the malloc of hashtable_create_entry and the malloc of key_copy succeed
\* if the call makes them.
hashtable_put_exits(t, key, buckets_ok, entry_ok, key_ok) ==
    IF LoadExceeded(t) /\ ~buckets_ok THEN TRUE
    ELSE LET t1 == PutResize(t)
             index == hash_int(key, t1.capacity)
         IN  IF ChainFind(t1.buckets[index], key) > 0 THEN FALSE
             ELSE IF ~entry_ok THEN FALSE
             ELSE ~key_ok

hashtable_get(t, key) ==
    LET index == hash_int(key, t.capacity)
        i == ChainFind(t.buckets[index], key)
    IN  IF i > 0 THEN t.buckets[index][i].value ELSE NULL

\* hashtable_remove that does not decrement size.
hashtable_remove_NoDec(t, key) ==
    LET index == hash_int(key, t.capacity)
        i == ChainFind(t.buckets[index], key)
    IN  IF i > 0
        THEN [t |-> [t EXCEPT !.buckets[index] = ChainSplice(@, i)],
              ret |-> TRUE, freed |-> 1]
        ELSE [t |-> t, ret |-> FALSE, freed |-> 0]

hashtable_remove(t, key) ==
    LET index == hash_int(key, t.capacity)
        i == ChainFind(t.buckets[index], key)
    IN  IF i > 0
        THEN [t |-> [t EXCEPT !.buckets[index] = ChainSplice(@, i), !.size = @ - 1],
              ret |-> TRUE, freed |-> 1]
        ELSE [t |-> t, ret |-> FALSE, freed |-> 0]

hashtable_contains(t, key) == hashtable_get(t, key) # NULL

hashtable_size(t) == t.size

hashtable_is_empty(t) == t.size = 0

\* hashtable_clear that drops the entries without calling key_free.
hashtable_clear_KeepsKeys(t) ==
    [t |-> [t EXCEPT !.buckets = EmptyBuckets(t.capacity), !.size = 0],
     freed |-> 0]

\* hashtable_clear that does not reset size.
hashtable_clear_SizeKept(t) ==
    [t |-> [t EXCEPT !.buckets = EmptyBuckets(t.capacity)],
     freed |-> Len(EntriesFrom(t, 0))]

\* hashtable_clear frees every entry of every chain and sets size to 0.
hashtable_clear(t) ==
    [t |-> [t EXCEPT !.buckets = EmptyBuckets(t.capacity), !.size = 0],
     freed |-> Len(EntriesFrom(t, 0))]

hashtable_free(t) ==
    [t |-> NoTable, freed |-> hashtable_clear(t).freed]

\* ------------------------------------------------------------ hash set

\* static void *HASHSET_DUMMY_VALUE = (void *)1
HASHSET_DUMMY_VALUE == 1

hashset_init(initial_capacity) == hashtable_init(initial_capacity)

hashset_contains(set, key) == hashtable_contains(set, key)

hashset_size(set) == hashtable_size(set)

hashset_is_empty(set) == hashtable_is_empty(set)

\* hashset_add: the return value of hashtable_put is not read.
hashset_add(set, key, entry_ok) ==
    LET existed == hashtable_contains(set, key)
        r == hashtable_put(set, key, HASHSET_DUMMY_VALUE, entry_ok)
    IN  [t |-> r.t, ret |-> ~existed]

\* The loop of hashset_intersection over the entries es of the smaller set,
\* from the n-th on.  ok_keys: the keys for which malloc of the entry succeeds.
RECURSIVE IntersectLoop(_, _, _, _, _)
IntersectLoop(es, n, larger, result, ok_keys) ==
    IF n > Len(es) THEN result
    ELSE LET key == es[n].key
             next == IF hashset_contains(larger, key)
                     THEN hashset_add(result, key, key \in ok_keys).t
                     ELSE result
         IN  IntersectLoop(es, n + 1, larger, next, ok_keys)

\* IntersectionOperands that always walks set1.
IntersectionOperands_Set1(set1, set2) == [smaller |-> set1, larger |-> set2]

\* The set hashset_intersection walks and the set it probes.  set1 and set2
\* are distinct objects, so smaller == set1 holds exactly when
\* size(set1) <= size(set2).
IntersectionOperands(set1, set2) ==
    LET first == hashset_size(set1) <= hashset_size(set2)
    IN  [smaller |-> IF first THEN set1 ELSE set2,
         larger |-> IF first THEN set2 ELSE set1]

hashset_intersection(set1, set2, result, ok_keys) ==
    LET o == IntersectionOperands(set1, set2)
    IN  IntersectLoop(EntriesFrom(o.smaller, 0), 1, o.larger, result, ok_keys)

\* The entries the loop of hashset_intersection visits.
IntersectionVisits(set1, set2) ==
    Len(EntriesFrom(IntersectionOperands(set1, set2).smaller, 0))

\* One loop of hashset_union over the entries es of a set, from the n-th on.
RECURSIVE UnionLoop(_, _, _, _)
UnionLoop(es, n, result, ok_keys) ==
    IF n > Len(es) THEN result
    ELSE UnionLoop(es, n + 1, hashset_add(result, es[n].key, es[n].key \in ok_keys).t,
                   ok_keys)

hashset_union(set1, set2, result, ok_keys) ==
    UnionLoop(EntriesFrom(set2, 0), 1,
              UnionLoop(EntriesFrom(set1, 0), 1, result, ok_keys), ok_keys)

\* The entries the two loops of hashset_union visit.
UnionVisits(set1, set2) == Len(EntriesFrom(set1, 0)) + Len(EntriesFrom(set2, 0))

\* The loop of hashset_difference over the entries es of set1, from the n-th on.
RECURSIVE DifferenceLoop(_, _, _, _, _)
DifferenceLoop(es, n, set2, result, ok_keys) ==
    IF n > Len(es) THEN result
    ELSE LET key == es[n].key
             next == IF ~hashset_contains(set2, key)
                     THEN hashset_add(result, key, key \in ok_keys).t
                     ELSE result
         IN  DifferenceLoop(es, n + 1, set2, next, ok_keys)

\* hashset_difference that walks set2 and probes set1.
hashset_difference_Swapped(set1, set2, result, ok_keys) ==
    DifferenceLoop(EntriesFrom(set2, 0), 1, set1, result, ok_keys)

hashset_difference(set1, set2, result, ok_keys) ==
    DifferenceLoop(EntriesFrom(set1, 0), 1, set2, result, ok_keys)

\* The entries the loop of hashset_difference visits.
DifferenceVisits(set1, set2) == Len(EntriesFrom(set1, 0))

\* The loop of hashset_is_subset over the entries es[n..] of set1.
RECURSIVE SubsetLoop(_, _, _)
SubsetLoop(es, n, set2) ==
    IF n > Len(es) THEN TRUE
    ELSE IF ~hashset_contains(set2, es[n].key) THEN FALSE
    ELSE SubsetLoop(es, n + 1, set2)

hashset_is_subset(set1, set2) ==
    IF hashset_size(set1) > hashset_size(set2) THEN FALSE
    ELSE SubsetLoop(EntriesFrom(set1, 0), 1, set2)

\* The entries the loop of hashset_is_subset has visited when it returns.
RECURSIVE SubsetLoopVisits(_, _, _)
SubsetLoopVisits(es, n, set2) ==
    IF n > Len(es) THEN 0
    ELSE IF ~hashset_contains(set2, es[n].key) THEN 1
    ELSE 1 + SubsetLoopVisits(es, n + 1, set2)

SubsetVisits(set1, set2) ==
    IF hashset_size(set1) > hashset_size(set2) THEN 0
    ELSE SubsetLoopVisits(EntriesFrom(set1, 0), 1, set2)

\* hashset_equals that compares the sizes only.
hashset_equals_SizeOnly(set1, set2) == hashset_size(set1) = hashset_size(set2)

hashset_equals(set1, set2) ==
    hashset_size(set1) = hashset_size(set2) /\ hashset_is_subset(set1, set2)

\* The entries hashset_equals visits: none when the sizes differ.
EqualsVisits(set1, set2) ==
    IF hashset_size(set1) = hashset_size(set2) THEN SubsetVisits(set1, set2) ELSE 0

\* ------------------------------------------------------------ observers

\* All entries reachable by walking the chains, bucket 0 first.
Entries(t) == EntriesFrom(t, 0)

\* The number of entries reachable by walking the chains.
EntryCount(t) == Len(Entries(t))

\* The (key, value) pairs stored.
Pairs(t) ==
    UNION { { t.buckets[i][j] : j \in 1 .. Len(t.buckets[i]) } : i \in DOMAIN t.buckets }

\* The keys stored.
KeysOf(t) == { e.key : e \in Pairs(t) }

\* Some chain holds an entry with key k.
HasKey(t, k) ==
    \E i \in DOMAIN t.buckets : \E j \in 1 .. Len(t.buckets[i]) : t.buckets[i][j].key = k

\* ------------------------------------------------------------ int

\* int is 32 bits wide.  A number is split into a signed high half and an
\* unsigned low half so that no intermediate result leaves 32 bits.
INT_MAX == 2147483647
INT_MIN == (-INT_MAX) - 1

\* The high half of ia - ib before it is reduced to 16 bits, and the low half.
SubHigh(ia, ib) ==
    (ia \div TWO16) - (ib \div TWO16) - (IF (ia % TWO16) < (ib % TWO16) THEN 1 ELSE 0)
SubLow(ia, ib) == ((ia % TWO16) - (ib % TWO16) + TWO16) % TWO16

\* ia - ib does not fit an int: signed overflow, which C leaves undefined.
SubOverflows(ia, ib) ==
    SubHigh(ia, ib) < -(TWO16 \div 2) \/ SubHigh(ia, ib) >= TWO16 \div 2

\* ia - ib reduced modulo 2^32 into the range of int.
WrapSub(ia, ib) ==
    (((SubHigh(ia, ib) + TWO16 \div 2) % TWO16) - TWO16 \div 2) * TWO16 + SubLow(ia, ib)

\* What a build makes of the int expression ia - ib.  Where the difference fits
\* an int, the difference.  On overflow: a "wrap" build computes it modulo 2^32;
\* an "exact" build, having folded the subtraction into the caller's sign test,
\* yields a number with the sign of the true difference; a "trap" build aborts,
\* and the number is never used.
Builds == {"wrap", "exact", "trap"}
IntSub(ia, ib, build) ==
    IF SubOverflows(ia, ib) /\ build = "exact"
    THEN IF ia < ib THEN -1 ELSE 1
    ELSE WrapSub(ia, ib)

\* ------------------------------------------------------------ comparators

\* The elements are pointers 1..NumPtrs to ints; IntAt(p) is *p.  Pointers 1
\* and 4 point to equal ints, and *2 - *3 and *3 - *2 overflow.  *5 - *3 is
\* INT_MIN and *3 - *5 overflows.  A pointer p > 5 points to the Player with
\* player_id p - 5: player_id is the first member of Player, so that is the
\* int which *(const int *)p reads.
IntAt(p) ==
    CASE p = 1 -> 0
      [] p = 2 -> -2
      [] p = 3 -> INT_MAX
      [] p = 4 -> 0
      [] p = 5 -> -1
      [] OTHER -> p - 5

heap_int_compare_min(a, b, build) == IntSub(IntAt(a), IntAt(b), build)

heap_int_compare_max(a, b, build) == IntSub(IntAt(b), IntAt(a), build)

\* heap->compare(a, b), for compare one of the two int comparators.
Compare(compare, a, b, build) ==
    IF compare = "min"
    THEN heap_int_compare_min(a, b, build)
    ELSE heap_int_compare_max(a, b, build)

\* The call heap->compare(a, b) overflows.
CompareOverflows(compare, a, b) ==
    IF compare = "min"
    THEN SubOverflows(IntAt(a), IntAt(b))
    ELSE SubOverflows(IntAt(b), IntAt(a))

HEAP_PARENT(i) == (i - 1) \div 2
HEAP_LEFT_CHILD(i) == 2 * i + 1
HEAP_RIGHT_CHILD(i) == 2 * i + 2

\* ------------------------------------------------------------ dynamic array

DYNARRAY_DEFAULT_CAPACITY == 8
DYNARRAY_GROWTH_FACTOR == 2
DYNARRAY_SHRINK_THRESHOLD == 4

\* A DynArray: data holds the size elements in use, element i at data[i + 1].
dynarray_init(initial_capacity) ==
    [data |-> << >>,
     capacity |-> IF initial_capacity > 0 THEN initial_capacity
                  ELSE DYNARRAY_DEFAULT_CAPACITY]

dynarray_size(arr) == Len(arr.data)

dynarray_is_empty(arr) == Len(arr.data) = 0

dynarray_resize(arr, new_capacity) ==
    IF new_capacity < Len(arr.data) THEN arr
    ELSE [arr EXCEPT !.capacity = new_capacity]

\* dynarray_ensure_capacity that never grows the array.
dynarray_ensure_capacity_Never(arr) == arr

dynarray_ensure_capacity(arr) ==
    IF Len(arr.data) >= arr.capacity
    THEN dynarray_resize(arr, arr.capacity * DYNARRAY_GROWTH_FACTOR)
    ELSE arr

dynarray_push(arr, element) ==
    LET a == dynarray_ensure_capacity(arr)
    IN  [a EXCEPT !.data = Append(@, element)]

\* Returns the array and the element removed (NULL if the array is empty).
dynarray_pop(arr) ==
    IF Len(arr.data) = 0 THEN [arr |-> arr, ret |-> NULL]
    ELSE LET element == arr.data[Len(arr.data)]
             a == [arr EXCEPT !.data = SubSeq(@, 1, Len(@) - 1)]
             new_capacity == a.capacity \div DYNARRAY_GROWTH_FACTOR
         IN  [arr |-> IF /\ Len(a.data) > 0
                         /\ Len(a.data) * DYNARRAY_SHRINK_THRESHOLD <= a.capacity
                         /\ new_capacity >= DYNARRAY_DEFAULT_CAPACITY
                      THEN dynarray_resize(a, new_capacity)
                      ELSE a,
              ret |-> element]

dynarray_get(arr, index) ==
    IF index < Len(arr.data) THEN arr.data[index + 1] ELSE NULL

dynarray_set(arr, index, element) ==
    IF index >= Len(arr.data) THEN arr
    ELSE [arr EXCEPT !.data[index + 1] = element]

dynarray_clear(arr) == [arr EXCEPT !.data = << >>]

dynarray_reserve(arr, min_capacity) ==
    IF min_capacity > arr.capacity THEN dynarray_resize(arr, min_capacity)
    ELSE arr

\* dynarray_push calls realloc.
dynarray_push_resizes(arr) == Len(arr.data) >= arr.capacity

\* dynarray_pop calls realloc.
dynarray_pop_resizes(arr) ==
    /\ Len(arr.data) > 1
    /\ (Len(arr.data) - 1) * DYNARRAY_SHRINK_THRESHOLD <= arr.capacity
    /\ arr.capacity \div DYNARRAY_GROWTH_FACTOR >= DYNARRAY_DEFAULT_CAPACITY

\* ------------------------------------------------------------ stack

STACK_DEFAULT_CAPACITY == 16

NoStack == [array |-> [data |-> << >>, capacity |-> 0]]

stack_init == [array |-> dynarray_init(STACK_DEFAULT_CAPACITY)]

stack_init_with_capacity(initial_capacity) ==
    [array |-> dynarray_init(initial_capacity)]

stack_push(s, data) == [s EXCEPT !.array = dynarray_push(@, data)]

\* stack_pop that removes the bottom element.
stack_pop_Bottom(s) ==
    IF Len(s.array.data) = 0 THEN [stack |-> s, ret |-> NULL]
    ELSE [stack |-> [s EXCEPT !.array.data = Tail(@)], ret |-> Head(s.array.data)]

\* Returns the stack and the element removed (NULL if the stack is empty).
stack_pop(s) ==
    LET r == dynarray_pop(s.array)
    IN  [stack |-> [s EXCEPT !.array = r.arr], ret |-> r.ret]

stack_peek(s) ==
    LET size == dynarray_size(s.array)
    IN  IF size > 0 THEN dynarray_get(s.array, size - 1) ELSE NULL

stack_size(s) == dynarray_size(s.array)

stack_is_empty(s) == dynarray_is_empty(s.array)

\* ------------------------------------------------------------ doubly linked list

\* A DoublyLinkedList: nodes maps the address of each allocated node to the
\* node; head and tail are addresses, NULL when the list is empty.
doubly_create_node(data) == [data |-> data, next |-> NULL, prev |-> NULL]

\* The address malloc returns for a new node.
NewNode(list) ==
    CHOOSE n \in 1 .. Cardinality(DOMAIN list.nodes) + 1 : n \notin DOMAIN list.nodes

\* The nodes after free(node).
FreeNode(nodes, node) == [n \in DOMAIN nodes \ {node} |-> nodes[n]]

doubly_init == [head |-> NULL, tail |-> NULL, size |-> 0, nodes |-> << >>]

\* node_ok: malloc returns a node.
doubly_push_back(list, data, node_ok) ==
    IF ~node_ok THEN list
    ELSE LET node == NewNode(list)
             nodes == [n \in DOMAIN list.nodes \cup {node} |->
                          IF n = node THEN doubly_create_node(data)
                          ELSE list.nodes[n]]
         IN  IF list.tail = NULL
             THEN [list EXCEPT !.nodes = nodes, !.head = node, !.tail = node,
                               !.size = @ + 1]
             ELSE [list EXCEPT !.nodes = [nodes EXCEPT ![list.tail].next = node,
                                                       ![node].prev = list.tail],
                               !.tail = node,
                               !.size = @ + 1]

\* doubly_pop_front that unlinks the tail.
doubly_pop_front_Tail(list) ==
    IF list.head = NULL THEN [list |-> list, ret |-> NULL]
    ELSE LET node == list.tail
             data == list.nodes[node].data
         IN  [list |->
                  IF list.head = list.tail
                  THEN [list EXCEPT !.head = NULL, !.tail = NULL,
                                    !.nodes = FreeNode(@, node), !.size = @ - 1]
                  ELSE LET tail == list.nodes[node].prev
                       IN  [list EXCEPT !.tail = tail,
                                        !.nodes = FreeNode([@ EXCEPT ![tail].next = NULL],
                                                           node),
                                        !.size = @ - 1],
              ret |-> data]

\* Returns the list and the data removed (NULL if the list is empty).
doubly_pop_front(list) ==
    IF list.head = NULL THEN [list |-> list, ret |-> NULL]
    ELSE LET node == list.head
             data == list.nodes[node].data
         IN  [list |->
                  IF list.head = list.tail
                  THEN [list EXCEPT !.head = NULL, !.tail = NULL,
                                    !.nodes = FreeNode(@, node), !.size = @ - 1]
                  ELSE LET head == list.nodes[node].next
                       IN  [list EXCEPT !.head = head,
                                        !.nodes = FreeNode([@ EXCEPT ![head].prev = NULL],
                                                           node),
                                        !.size = @ - 1],
              ret |-> data]

\* The node reached from current by following next while i < index.
RECURSIVE WalkNext(_, _, _, _)
WalkNext(list, current, i, index) ==
    IF i < index THEN WalkNext(list, list.nodes[current].next, i + 1, index)
    ELSE current

\* The node reached from current by following prev while i > index.
RECURSIVE WalkPrev(_, _, _, _)
WalkPrev(list, current, i, index) ==
    IF i > index THEN WalkPrev(list, list.nodes[current].prev, i - 1, index)
    ELSE current

doubly_get_at(list, index) ==
    IF index >= list.size THEN NULL
    ELSE LET current == IF index < list.size \div 2
                        THEN WalkNext(list, list.head, 0, index)
                        ELSE WalkPrev(list, list.tail, list.size - 1, index)
         IN  list.nodes[current].data

doubly_size(list) == list.size

doubly_is_empty(list) == list.size = 0

\* ------------------------------------------------------------ queue

NoQueue == [list |-> doubly_init]

queue_init == [list |-> doubly_init]

queue_enqueue(q, data, node_ok) ==
    [q EXCEPT !.list = doubly_push_back(@, data, node_ok)]

\* Returns the queue and the element removed (NULL if the queue is empty).
queue_dequeue(q) ==
    LET r == doubly_pop_front(q.list)
    IN  [queue |-> [q EXCEPT !.list = r.list], ret |-> r.ret]

queue_peek(q) == doubly_get_at(q.list, 0)

queue_size(q) == doubly_size(q.list)

queue_is_empty(q) == doubly_is_empty(q.list)

\* ------------------------------------------------------------ binary heap

HEAP_DEFAULT_CAPACITY == 16

\* A BinaryHeap: data is its DynArray, compare names its comparator.  ub is not
\* a field of the struct: it records that a comparison made for this heap has
\* overflowed since binary_heap_init.
NoHeap == [data |-> [data |-> << >>, capacity |-> 0], compare |-> "none", ub |-> FALSE]

binary_heap_init(compare, initial_capacity) ==
    [data |-> dynarray_init(IF initial_capacity > 0 THEN initial_capacity
                            ELSE HEAP_DEFAULT_CAPACITY),
     compare |-> compare,
     ub |-> FALSE]

min_heap_init(initial_capacity) == binary_heap_init("min", initial_capacity)

max_heap_init(initial_capacity) == binary_heap_init("max", initial_capacity)

\* heap->compare(a, b) on the heap, noting an overflow in ub.
NoteCompare(heap, a, b) ==
    [heap EXCEPT !.ub = @ \/ CompareOverflows(heap.compare, a, b)]

\* A swap that copies element j over element i and leaves j as it is.
binary_heap_swap_Overwrite(heap, i, j) ==
    [heap EXCEPT !.data = dynarray_set(heap.data, i, dynarray_get(heap.data, j))]

binary_heap_swap(heap, i, j) ==
    LET temp == dynarray_get(heap.data, i)
        d1 == dynarray_set(heap.data, i, dynarray_get(heap.data, j))
    IN  [heap EXCEPT !.data = dynarray_set(d1, j, temp)]

RECURSIVE binary_heap_heapify_up(_, _, _)
binary_heap_heapify_up(heap, index, build) ==
    IF ~(index > 0) THEN heap
    ELSE LET parent_idx == HEAP_PARENT(index)
             current == dynarray_get(heap.data, index)
             parent == dynarray_get(heap.data, parent_idx)
             h == NoteCompare(heap, current, parent)
         IN  IF Compare(heap.compare, current, parent, build) >= 0 THEN h
             ELSE binary_heap_heapify_up(binary_heap_swap(h, index, parent_idx),
                                         parent_idx, build)

RECURSIVE binary_heap_heapify_down(_, _, _)
binary_heap_heapify_down(heap, index, build) ==
    LET size == dynarray_size(heap.data)
        left == HEAP_LEFT_CHILD(index)
        right == HEAP_RIGHT_CHILD(index)
        current == dynarray_get(heap.data, index)
        left_data == dynarray_get(heap.data, left)
        target1 == IF left < size /\ Compare(heap.compare, left_data, current, build) < 0
                   THEN left ELSE index
        h1 == IF left < size THEN NoteCompare(heap, left_data, current) ELSE heap
        target_data == dynarray_get(heap.data, target1)
        right_data == dynarray_get(heap.data, right)
        target == IF right < size /\ Compare(heap.compare, right_data, target_data, build) < 0
                  THEN right ELSE target1
        h2 == IF right < size THEN NoteCompare(h1, right_data, target_data) ELSE h1
    IN  IF target = index THEN h2
        ELSE binary_heap_heapify_down(binary_heap_swap(h2, index, target), target, build)

binary_heap_push(heap, element, build) ==
    LET h == [heap EXCEPT !.data = dynarray_push(@, element)]
        last_index == dynarray_size(h.data) - 1
    IN  binary_heap_heapify_up(h, last_index, build)

\* Returns the heap and the root removed (NULL if the heap is empty).
binary_heap_pop(heap, build) ==
    LET size == dynarray_size(heap.data)
        root == dynarray_get(heap.data, 0)
        p == dynarray_pop(heap.data)
    IN  IF size = 0 THEN [heap |-> heap, ret |-> NULL]
        ELSE IF size = 1 THEN [heap |-> [heap EXCEPT !.data = p.arr], ret |-> root]
        ELSE [heap |-> binary_heap_heapify_down(
                           [heap EXCEPT !.data = dynarray_set(p.arr, 0, p.ret)], 0, build),
              ret |-> root]

\* peek that returns the last element of the backing array.
binary_heap_peek_Last(h) ==
    IF dynarray_size(h.data) > 0
    THEN dynarray_get(h.data, dynarray_size(h.data) - 1) ELSE NULL

binary_heap_peek(heap) ==
    IF dynarray_size(heap.data) > 0 THEN dynarray_get(heap.data, 0) ELSE NULL

\* Returns the heap and the old root (NULL if the heap was empty).
binary_heap_replace(heap, element, build) ==
    LET size == dynarray_size(heap.data)
        old_root == dynarray_get(heap.data, 0)
    IN  IF size = 0
        THEN [heap |-> binary_heap_push(heap, element, build), ret |-> NULL]
        ELSE [heap |-> binary_heap_heapify_down(
                           [heap EXCEPT !.data = dynarray_set(@, 0, element)], 0, build),
              ret |-> old_root]

\* dynarray_push of elements[i + 1 .. count] in turn.
RECURSIVE PushAll(_, _, _)
PushAll(arr, elements, i) ==
    IF i >= Len(elements) THEN arr
    ELSE PushAll(dynarray_push(arr, elements[i + 1]), elements, i + 1)

\* The loop for (i = last_parent + 1; i > 0; i--) heapify_down(heap, i - 1).
RECURSIVE HeapifyFrom(_, _, _)
HeapifyFrom(heap, i, build) ==
    IF ~(i > 0) THEN heap
    ELSE HeapifyFrom(binary_heap_heapify_down(heap, i - 1, build), i - 1, build)

\* elements is the array, count its length.
binary_heap_build_from_array(heap, elements, build) ==
    LET count == Len(elements)
        d == PushAll(dynarray_reserve(dynarray_clear(heap.data), count), elements, 0)
        h == [heap EXCEPT !.data = d]
    IN  IF count > 1 THEN HeapifyFrom(h, HEAP_PARENT(count - 1) + 1, build)
        ELSE h

binary_heap_size(heap) == dynarray_size(heap.data)

binary_heap_is_empty(heap) == dynarray_is_empty(heap.data)

binary_heap_clear(heap) == [heap EXCEPT !.data = dynarray_clear(@)]

\* binary_heap_is_valid with the loop bound (size - 1) / 2: a parent whose only
\* child is a left child is not looked at.
binary_heap_is_valid_FullParents(heap, build) ==
    LET size == dynarray_size(heap.data)
    IN  \A i \in 0 .. ((size - 1) \div 2) - 1 :
            LET left == HEAP_LEFT_CHILD(i)
                right == HEAP_RIGHT_CHILD(i)
                parent_data == dynarray_get(heap.data, i)
            IN  /\ left < size =>
                    ~(Compare(heap.compare, parent_data,
                              dynarray_get(heap.data, left), build) > 0)
                /\ right < size =>
                    ~(Compare(heap.compare, parent_data,
                              dynarray_get(heap.data, right), build) > 0)

\* No parent i < size / 2 is ranked strictly behind one of its children.
binary_heap_is_valid(heap, build) ==
    LET size == dynarray_size(heap.data)
    IN  \A i \in 0 .. (size \div 2) - 1 :
            LET left == HEAP_LEFT_CHILD(i)
                right == HEAP_RIGHT_CHILD(i)
                parent_data == dynarray_get(heap.data, i)
            IN  /\ left < size =>
                    ~(Compare(heap.compare, parent_data,
                              dynarray_get(heap.data, left), build) > 0)
                /\ right < size =>
                    ~(Compare(heap.compare, parent_data,
                              dynarray_get(heap.data, right), build) > 0)

\* The loop of binary_heap_is_valid compares the children 1, 2, ... in this
\* order, each with its parent, and returns at the first parent ranked behind
\* its child: the call performs an overflowing comparison.
binary_heap_is_valid_overflows(heap) ==
    LET size == dynarray_size(heap.data)
        Stops(c) ==
            \/ CompareOverflows(heap.compare, dynarray_get(heap.data, HEAP_PARENT(c)),
                                dynarray_get(heap.data, c))
            \/ Compare(heap.compare, dynarray_get(heap.data, HEAP_PARENT(c)),
                       dynarray_get(heap.data, c), "wrap") > 0
    IN  \E c \in 1 .. size - 1 :
            /\ CompareOverflows(heap.compare, dynarray_get(heap.data, HEAP_PARENT(c)),
                                dynarray_get(heap.data, c))
            /\ \A d \in 1 .. c - 1 : ~Stops(d)

\* heap1 and heap2 are two heaps.  Returns both.
RECURSIVE binary_heap_merge(_, _, _)
binary_heap_merge(heap1, heap2, build) ==
    IF binary_heap_is_empty(heap2) THEN [heap1 |-> heap1, heap2 |-> heap2]
    ELSE LET p == binary_heap_pop(heap2, build)
         IN  binary_heap_merge(binary_heap_push(heap1, p.ret, build), p.heap, build)

\* ------------------------------------------------------------ state

VARIABLES
    table,      \* the HashTable
    pstate,     \* "uninit": before init or after free; "live": between init and free;
                \* "exited": the process has called exit
    owned,      \* key copies made by key_copy and not yet given to key_free
    model,      \* maps each key that a put returning true has stored, with no remove
                \* of it or clear since, to the value of the last such put
    lastOp,     \* the last table operation, its result, and what it met
    setA,       \* HashSet A
    setB,       \* HashSet B
    result,     \* the HashSet given to the set operations as their result
    setOp,      \* the last set operation
    rd,         \* the last read-only query of a set, its key and its result
    alg,        \* the entries of A and B that the last operation on both visited
    heap,       \* the BinaryHeap
    other,      \* a second BinaryHeap, with the same comparator
    hstate,     \* "uninit": before binary_heap_init; "live": after it;
                \* "trapped": the process was aborted on a signed overflow
    build,      \* how the build treats signed overflow
    hlast,      \* the last heap operation and its return value
    arr,        \* the array of elements given to the heap
    out,        \* the elements popped from heap, in order
    out2,       \* the elements popped from other, in order
    stack,      \* the Stack
    queue,      \* the Queue
    pending,    \* the elements given to push or enqueue and not yet returned by
                \* pop or dequeue, in the order they were given
    dropped,    \* TRUE once an enqueue has returned without storing its element
    clast,      \* the last container operation and its return value
    cstate,     \* "uninit": no container; "live": initialised;
                \* "exited": the process has called exit
    chained,    \* a HashTable whose insertions are recorded
    inserted,   \* the keys that chained holds, in the order they were inserted
    rehashed,   \* TRUE once chained has been resized
    ia,         \* the int *a given to a comparator
    ib,         \* the int *b given to a comparator
    cres,       \* the last comparator call and what it returned
    players,    \* the array of all players: Player records, in the order added
    youngest_players, \* the MinHeap of Player pointers
    oldest_players, \* the MaxHeap of Player pointers
    next_player_id, \* the id the next player gets
    blast,      \* the last call on the BasketballSystem and what it returned
    darr,       \* the DynArray
    dlast,      \* the last DynArray operation and its return value
    dstate      \* "uninit": no array; "live": initialised; "exited": the process has called exit

\* The variables of the table, and those of the sets.
hvars == << table, pstate, owned, model, lastOp >>
svars == << setA, setB, result, setOp, rd, alg >>
qvars == << heap, other, hstate, build, hlast, arr, out, out2 >>
cvars == << stack, queue, pending, dropped, clast, cstate >>
kvars == << chained, inserted, rehashed >>
nvars == << ia, ib, cres >>
bvars == << players, youngest_players, oldest_players, next_player_id, blast >>
dvars == << darr, dlast, dstate >>
vars == << hvars, svars, qvars, cvars, kvars, nvars, bvars, dvars >>

\* op: the operation; ret: its return value (TRUE for a void operation);
\* present: its key was in the table before it; resized: it resized the table.
Op(op, ret, present, resized) ==
    [op |-> op, ret |-> ret, present |-> present, resized |-> resized]

EmptyModel == << >>

\* The model after a put of (k, v) that returned true, and after a remove of k.
ModelPut(m, k, v) == [j \in DOMAIN m \cup {k} |-> IF j = k THEN v ELSE m[j]]
ModelRemove(m, k) == [j \in DOMAIN m \ {k} |-> m[j]]

\* op: the set operation; ret: its return value (TRUE for a void operation);
\* existed: its key was a member before it; failed: a malloc in it failed.
SetOpRec(op, ret, existed, failed) ==
    [op |-> op, ret |-> ret, existed |-> existed, failed |-> failed]

\* op: the query; key: its key (NULL if it has none); ret: its result.
Read(op, key, ret) == [op |-> op, key |-> key, ret |-> ret]
NoRead == Read("none", NULL, NULL)

\* op: the operation on two sets; visits: the entries its loops visited.
Alg(op, visits) == [op |-> op, visits |-> visits]
NoAlg == Alg("none", 0)

\* A bool as the int it is when returned.
BoolInt(b) == IF b THEN 1 ELSE 0

\* No set is in use.
SetsUnused ==
    /\ rd = NoRead
    /\ alg = NoAlg
    /\ setA = NoTable
    /\ setB = NoTable
    /\ result = NoTable
    /\ setOp = SetOpRec("none", TRUE, FALSE, FALSE)

\* op: the heap operation; ret: its return value (NULL for a void operation).
HeapOp(op, ret) == [op |-> op, ret |-> ret]

\* No heap is in use.
HeapsUnused ==
    /\ heap = NoHeap
    /\ other = NoHeap
    /\ hstate = "uninit"
    /\ build = "wrap"
    /\ hlast = HeapOp("none", NULL)
    /\ arr = << >>
    /\ out = << >>
    /\ out2 = << >>

\* op: the operation; ret: the pointer it returned (NULL if it returns none).
ContOp(op, ret) == [op |-> op, ret |-> ret]

\* No container is in use.
ContainersUnused ==
    /\ stack = NoStack
    /\ queue = NoQueue
    /\ pending = << >>
    /\ dropped = FALSE
    /\ clast = ContOp("none", NULL)
    /\ cstate = "uninit"

\* op: the comparator called; ret: the int it returned.
CmpRes(op, ret) == [op |-> op, ret |-> ret]

\* op: the call on the BasketballSystem; ret: the Player pointer it returned
\* (NULL if it returns none).
SysOp(op, ret) == [op |-> op, ret |-> ret]

\* No BasketballSystem is in use.
PlayersUnused ==
    /\ players = << >>
    /\ youngest_players = NoHeap
    /\ oldest_players = NoHeap
    /\ next_player_id = 0
    /\ blast = SysOp("none", NULL)

\* op: the DynArray operation; ret: its return value (NULL for a void
\* operation); resized: it called realloc.
ArrOp(op, ret, resized) == [op |-> op, ret |-> ret, resized |-> resized]

\* No DynArray of its own is in use.
ArrayUnused ==
    /\ darr = [data |-> << >>, capacity |-> 0]
    /\ dlast = ArrOp("none", NULL, FALSE)
    /\ dstate = "uninit"

\* No comparator has been called.
CompareUnused ==
    /\ ia = 0
    /\ ib = 0
    /\ cres = CmpRes("none", 0)

\* No insertion is recorded.
ChainUnused ==
    /\ chained = NoTable
    /\ inserted = << >>
    /\ rehashed = FALSE

Init ==
    /\ HeapsUnused
    /\ ContainersUnused
    /\ ChainUnused
    /\ CompareUnused
    /\ PlayersUnused
    /\ ArrayUnused
    /\ table = NoTable
    /\ pstate = "uninit"
    /\ owned = 0
    /\ model = EmptyModel
    /\ lastOp = Op("none", TRUE, FALSE, FALSE)
    /\ SetsUnused

\* hashtable_init with the requested capacity c, on a table not in use.
DoInit(c) ==
    /\ pstate = "uninit"
    /\ table' = hashtable_init(c)
    /\ pstate' = "live"
    /\ owned' = 0
    /\ model' = EmptyModel
    /\ lastOp' = Op("init", TRUE, FALSE, FALSE)
    /\ UNCHANGED << svars, qvars, cvars, kvars, nvars, bvars, dvars >>

Put(k, v, entry_ok) ==
    /\ pstate = "live"
    /\ LET r == hashtable_put(table, k, v, entry_ok)
       IN  /\ table' = r.t
           /\ owned' = owned + r.copies
           /\ model' = IF r.ret THEN ModelPut(model, k, v) ELSE model
           /\ lastOp' = Op("put", r.ret, HasKey(table, k), LoadExceeded(table))
    /\ UNCHANGED pstate
    /\ UNCHANGED << svars, qvars, cvars, kvars, nvars, bvars, dvars >>

\* hashtable_put(&table, k, v) in which the calloc of the new bucket array or
\* the copy of the key fails: the process exits.
PutExit(k, buckets_ok, entry_ok, key_ok) ==
    /\ pstate = "live"
    /\ hashtable_put_exits(table, k, buckets_ok, entry_ok, key_ok)
    /\ pstate' = "exited"
    /\ table' = NoTable
    /\ owned' = 0
    /\ model' = EmptyModel
    /\ lastOp' = Op(IF LoadExceeded(table) /\ ~buckets_ok THEN "exit_buckets"
                    ELSE "exit_key", FALSE, HasKey(table, k), FALSE)
    /\ UNCHANGED << svars, qvars, cvars, kvars, nvars, bvars, dvars >>

Remove(k) ==
    /\ pstate = "live"
    /\ LET r == hashtable_remove(table, k)
       IN  /\ table' = r.t
           /\ owned' = owned - r.freed
           /\ lastOp' = Op("remove", r.ret, HasKey(table, k), FALSE)
    /\ model' = ModelRemove(model, k)
    /\ UNCHANGED pstate
    /\ UNCHANGED << svars, qvars, cvars, kvars, nvars, bvars, dvars >>

Clear ==
    /\ pstate = "live"
    /\ LET r == hashtable_clear(table)
       IN  /\ table' = r.t
           /\ owned' = owned - r.freed
    /\ model' = EmptyModel
    /\ lastOp' = Op("clear", TRUE, FALSE, FALSE)
    /\ UNCHANGED pstate
    /\ UNCHANGED << svars, qvars, cvars, kvars, nvars, bvars, dvars >>

Free ==
    /\ pstate = "live"
    /\ LET r == hashtable_free(table)
       IN  /\ table' = r.t
           /\ owned' = owned - r.freed
    /\ model' = EmptyModel
    /\ pstate' = "uninit"
    /\ lastOp' = Op("free", TRUE, FALSE, FALSE)
    /\ UNCHANGED << svars, qvars, cvars, kvars, nvars, bvars, dvars >>

Next ==
    \/ \E c \in InitCaps : DoInit(c)
    \/ \E k \in Keys : \E v \in ValsFor(k), entry_ok \in BOOLEAN : Put(k, v, entry_ok)
    \/ \E k \in Keys : \E buckets_ok \in BOOLEAN, entry_ok \in BOOLEAN, key_ok \in BOOLEAN :
            PutExit(k, buckets_ok, entry_ok, key_ok)
    \/ \E k \in Keys : Remove(k)
    \/ Clear
    \/ Free

Spec == Init /\ [][Next]_vars

\* ------------------------------------------------------------ sets

\* The table is not in use.
TableUnused ==
    /\ table = NoTable
    /\ pstate = "uninit"
    /\ owned = 0
    /\ model = EmptyModel
    /\ lastOp = Op("none", TRUE, FALSE, FALSE)

\* A and B are initialised with a capacity each, the result set with the
\* default capacity (hashset_init_int).
SetInit ==
    /\ TableUnused
    /\ HeapsUnused
    /\ ContainersUnused
    /\ ChainUnused
    /\ CompareUnused
    /\ PlayersUnused
    /\ ArrayUnused
    /\ \E ca \in SetCaps, cb \in SetCaps :
        /\ setA = hashset_init(ca)
        /\ setB = hashset_init(cb)
    /\ result = hashset_init(HASHTABLE_DEFAULT_SIZE)
    /\ setOp = SetOpRec("init", TRUE, FALSE, FALSE)
    /\ rd = NoRead
    /\ alg = NoAlg

\* hashset_add(&A, k)
AddA(k, entry_ok) ==
    /\ LET r == hashset_add(setA, k, entry_ok)
       IN  /\ setA' = r.t
           /\ setOp' = SetOpRec("addA", r.ret, HasKey(setA, k),
                                ~entry_ok /\ ~HasKey(setA, k))
    /\ rd' = NoRead
    /\ alg' = NoAlg
    /\ UNCHANGED << setB, result >>
    /\ UNCHANGED << hvars, qvars, cvars, kvars, nvars, bvars, dvars >>

\* hashset_add(&B, k)
AddB(k, entry_ok) ==
    /\ LET r == hashset_add(setB, k, entry_ok)
       IN  /\ setB' = r.t
           /\ setOp' = SetOpRec("addB", r.ret, HasKey(setB, k),
                                ~entry_ok /\ ~HasKey(setB, k))
    /\ rd' = NoRead
    /\ alg' = NoAlg
    /\ UNCHANGED << setA, result >>
    /\ UNCHANGED << hvars, qvars, cvars, kvars, nvars, bvars, dvars >>

\* The keys hashset_intersection adds to the result.
Common(set1, set2) == KeysOf(set1) \cap KeysOf(set2)

\* hashset_intersection(&A, &B, &result), on an empty result set.
Intersect(ok_keys) ==
    /\ hashset_size(result) = 0
    /\ result' = hashset_intersection(setA, setB, result, ok_keys)
    /\ setOp' = SetOpRec("intersection", TRUE, FALSE,
                         ~(Common(setA, setB) \subseteq ok_keys))
    /\ rd' = NoRead
    /\ alg' = Alg("intersection", IntersectionVisits(setA, setB))
    /\ UNCHANGED << setA, setB >>
    /\ UNCHANGED << hvars, qvars, cvars, kvars, nvars, bvars, dvars >>

\* hashset_clear(&result)
ClearResult ==
    /\ hashset_size(result) > 0
    /\ result' = hashtable_clear(result).t
    /\ setOp' = SetOpRec("clear", TRUE, FALSE, FALSE)
    /\ rd' = NoRead
    /\ alg' = NoAlg
    /\ UNCHANGED << setA, setB >>
    /\ UNCHANGED << hvars, qvars, cvars, kvars, nvars, bvars, dvars >>

SetNext ==
    \/ \E k \in SetKeys, entry_ok \in BOOLEAN : AddA(k, entry_ok)
    \/ \E k \in SetKeys, entry_ok \in BOOLEAN : AddB(k, entry_ok)
    \/ \E ok_keys \in SUBSET SetKeys : Intersect(ok_keys)
    \/ ClearResult

SpecSet == SetInit /\ [][SetNext]_vars

\* ------------------------------------------------------------ reads

\* What a read-only query leaves alone: it takes the tables by pointer and
\* assigns no field of them.
ReadOnly ==
    /\ UNCHANGED << setA, setB, result, setOp >>
    /\ UNCHANGED << hvars, qvars, cvars, kvars, nvars, bvars, dvars >>

\* hashtable_get that moves the entry it finds to the head of its chain.
ReadGet_MoveToFront(k) ==
    /\ rd' = Read("get", k, hashtable_get(setA, k))
    /\ alg' = NoAlg
    /\ LET index == hash_int(k, setA.capacity)
           chain == setA.buckets[index]
           i == ChainFind(chain, k)
       IN  setA' = IF i > 0
                   THEN [setA EXCEPT !.buckets[index] =
                                         << chain[i] >> \o ChainSplice(chain, i)]
                   ELSE setA
    /\ UNCHANGED << setB, result, setOp >>
    /\ UNCHANGED << hvars, qvars, cvars, kvars, nvars, bvars, dvars >>

\* hashtable_get(&A, k)
ReadGet(k) ==
    /\ rd' = Read("get", k, hashtable_get(setA, k))
    /\ alg' = NoAlg
    /\ ReadOnly

\* hashtable_contains(&A, k)
ReadContains(k) ==
    /\ rd' = Read("contains", k, BoolInt(hashtable_contains(setA, k)))
    /\ alg' = NoAlg
    /\ ReadOnly

\* hashtable_size(&A)
ReadSize ==
    /\ rd' = Read("size", NULL, hashtable_size(setA))
    /\ alg' = NoAlg
    /\ ReadOnly

\* hashtable_is_empty(&A)
ReadIsEmpty ==
    /\ rd' = Read("is_empty", NULL, BoolInt(hashtable_is_empty(setA)))
    /\ alg' = NoAlg
    /\ ReadOnly

\* hashset_is_subset(&A, &B)
ReadSubset ==
    /\ rd' = Read("is_subset", NULL, BoolInt(hashset_is_subset(setA, setB)))
    /\ alg' = Alg("is_subset", SubsetVisits(setA, setB))
    /\ ReadOnly

\* hashset_equals(&A, &B)
ReadEquals ==
    /\ rd' = Read("equals", NULL, BoolInt(hashset_equals(setA, setB)))
    /\ alg' = Alg("equals", EqualsVisits(setA, setB))
    /\ ReadOnly

ReadNext ==
    \/ \E k \in SetKeys, entry_ok \in BOOLEAN : AddA(k, entry_ok)
    \/ \E k \in SetKeys, entry_ok \in BOOLEAN : AddB(k, entry_ok)
    \/ \E k \in SetKeys : ReadGet(k)
    \/ \E k \in SetKeys : ReadContains(k)
    \/ ReadSize
    \/ ReadIsEmpty
    \/ ReadSubset
    \/ ReadEquals

SpecRead == SetInit /\ [][ReadNext]_vars

\* ------------------------------------------------------------ set algebra

\* hashset_union(&A, &B, &result), on an empty result set.
Union(ok_keys) ==
    /\ hashset_size(result) = 0
    /\ result' = hashset_union(setA, setB, result, ok_keys)
    /\ setOp' = SetOpRec("union", TRUE, FALSE,
                         ~((KeysOf(setA) \cup KeysOf(setB)) \subseteq ok_keys))
    /\ rd' = NoRead
    /\ alg' = Alg("union", UnionVisits(setA, setB))
    /\ UNCHANGED << setA, setB >>
    /\ UNCHANGED << hvars, qvars, cvars, kvars, nvars, bvars, dvars >>

\* hashset_difference(&A, &B, &result), on an empty result set.
Difference(ok_keys) ==
    /\ hashset_size(result) = 0
    /\ result' = hashset_difference(setA, setB, result, ok_keys)
    /\ setOp' = SetOpRec("difference", TRUE, FALSE,
                         ~((KeysOf(setA) \ KeysOf(setB)) \subseteq ok_keys))
    /\ rd' = NoRead
    /\ alg' = Alg("difference", DifferenceVisits(setA, setB))
    /\ UNCHANGED << setA, setB >>
    /\ UNCHANGED << hvars, qvars, cvars, kvars, nvars, bvars, dvars >>

\* In one operation on two sets malloc fails for the entries of at most one key.
OkKeys == {SetKeys} \cup { SetKeys \ {k} : k \in SetKeys }

AlgebraNext ==
    \/ \E k \in SetKeys, entry_ok \in BOOLEAN : AddA(k, entry_ok)
    \/ \E k \in SetKeys, entry_ok \in BOOLEAN : AddB(k, entry_ok)
    \/ \E ok_keys \in OkKeys : Union(ok_keys)
    \/ \E ok_keys \in OkKeys : Intersect(ok_keys)
    \/ \E ok_keys \in OkKeys : Difference(ok_keys)
    \/ hashset_size(result) = 0 /\ ReadSubset
    \/ hashset_size(result) = 0 /\ ReadEquals
    \/ ClearResult

SpecAlgebra == SetInit /\ [][AlgebraNext]_vars

\* ------------------------------------------------------------ heaps

Ptrs == 1 .. NumPtrs
Comparators == {"min", "max"}

\* The heap after an operation that left it as h and returned ret: a trap build
\* has aborted the process if a comparison overflowed.
HeapResult(h, op, ret) ==
    IF build = "trap" /\ h.ub
    THEN /\ heap' = NoHeap
         /\ hstate' = "trapped"
         /\ hlast' = HeapOp("trap", NULL)
    ELSE /\ heap' = h
         /\ hstate' = hstate
         /\ hlast' = HeapOp(op, ret)

\* One heap, initialised by min_heap_init or max_heap_init with the default
\* capacity, in a process of any build.
HeapInit ==
    /\ TableUnused
    /\ SetsUnused
    /\ ContainersUnused
    /\ ChainUnused
    /\ CompareUnused
    /\ PlayersUnused
    /\ ArrayUnused
    /\ \E compare \in Comparators : heap = binary_heap_init(compare, 0)
    /\ other = NoHeap
    /\ hstate = "live"
    /\ build \in Builds
    /\ hlast = HeapOp("init", NULL)
    /\ arr = << >>
    /\ out = << >>
    /\ out2 = << >>

HeapPush(e) ==
    /\ hstate = "live"
    /\ binary_heap_size(heap) < MaxHeapLen
    /\ HeapResult(binary_heap_push(heap, e, build), "push", NULL)
    /\ UNCHANGED << other, build, arr, out, out2 >>
    /\ UNCHANGED << hvars, svars, cvars, kvars, nvars, bvars, dvars >>

HeapPop ==
    /\ hstate = "live"
    /\ LET r == binary_heap_pop(heap, build)
       IN  HeapResult(r.heap, "pop", r.ret)
    /\ UNCHANGED << other, build, arr, out, out2 >>
    /\ UNCHANGED << hvars, svars, cvars, kvars, nvars, bvars, dvars >>

HeapPeek ==
    /\ hstate = "live"
    /\ hlast' = HeapOp("peek", binary_heap_peek(heap))
    /\ UNCHANGED << heap, hstate, other, build, arr, out, out2 >>
    /\ UNCHANGED << hvars, svars, cvars, kvars, nvars, bvars, dvars >>

HeapReplace(e) ==
    /\ hstate = "live"
    /\ LET r == binary_heap_replace(heap, e, build)
       IN  HeapResult(r.heap, "replace", r.ret)
    /\ UNCHANGED << other, build, arr, out, out2 >>
    /\ UNCHANGED << hvars, svars, cvars, kvars, nvars, bvars, dvars >>

HeapClear ==
    /\ hstate = "live"
    /\ heap' = binary_heap_clear(heap)
    /\ hlast' = HeapOp("clear", NULL)
    /\ UNCHANGED << hstate, other, build, arr, out, out2 >>
    /\ UNCHANGED << hvars, svars, cvars, kvars, nvars, bvars, dvars >>

HeapNext ==
    \/ \E e \in Ptrs : HeapPush(e)
    \/ HeapPop
    \/ HeapPeek
    \/ \E e \in Ptrs : HeapReplace(e)
    \/ HeapClear

SpecHeap == HeapInit /\ [][HeapNext]_vars

\* ------------------------------------------------------------ validity spec

\* Pointers 1..NumValidPtrs: with pointer 5, a difference can be INT_MIN.
ValidPtrs == 1 .. NumValidPtrs

\* binary_heap_is_valid(heap): the heap is left as it is.  A trap build aborts
\* in the first comparison that overflows.
HeapIsValid ==
    /\ hstate = "live"
    /\ IF build = "trap" /\ binary_heap_is_valid_overflows(heap)
       THEN /\ heap' = NoHeap
            /\ hstate' = "trapped"
            /\ hlast' = HeapOp("trap", NULL)
       ELSE /\ hlast' = HeapOp("is_valid", BoolInt(binary_heap_is_valid(heap, build)))
            /\ UNCHANGED << heap, hstate >>
    /\ UNCHANGED << other, build, arr, out, out2 >>
    /\ UNCHANGED << hvars, svars, cvars, kvars, nvars, bvars, dvars >>

ValidNext ==
    \/ \E e \in ValidPtrs : HeapPush(e)
    \/ HeapPop
    \/ HeapIsValid

SpecValid == HeapInit /\ [][ValidNext]_vars

\* ------------------------------------------------------------ build and drain

\* The arrays given to the heap: up to MaxArrLen element pointers.
Arrays == UNION { [1 .. n -> Ptrs] : n \in 0 .. MaxArrLen }

\* Two empty heaps with the same comparator and an array of elements: the
\* elements are pushed into other one by one, heap is built from the array by
\* binary_heap_build_from_array, then other and heap are popped until empty.
DrainInit ==
    /\ TableUnused
    /\ SetsUnused
    /\ ContainersUnused
    /\ ChainUnused
    /\ CompareUnused
    /\ PlayersUnused
    /\ ArrayUnused
    /\ \E compare \in Comparators :
        /\ heap = binary_heap_init(compare, 0)
        /\ other = binary_heap_init(compare, 0)
    /\ hstate = "live"
    /\ build \in Builds
    /\ hlast = HeapOp("init", NULL)
    /\ arr \in Arrays
    /\ out = << >>
    /\ out2 = << >>

\* The process of a trap build is aborted.
Trapped ==
    /\ heap' = NoHeap
    /\ other' = NoHeap
    /\ hstate' = "trapped"
    /\ hlast' = HeapOp("trap", NULL)
    /\ arr' = << >>
    /\ out' = << >>
    /\ out2' = << >>

\* binary_heap_push(&other, arr[i]) for the next i.
PushNext ==
    /\ hstate = "live"
    /\ hlast.op \in {"init", "push"}
    /\ binary_heap_size(other) < Len(arr)
    /\ LET h == binary_heap_push(other, arr[binary_heap_size(other) + 1], build)
       IN  IF build = "trap" /\ h.ub THEN Trapped
           ELSE /\ other' = h
                /\ hlast' = HeapOp("push", NULL)
                /\ UNCHANGED << heap, hstate, arr, out, out2 >>
    /\ UNCHANGED build
    /\ UNCHANGED << hvars, svars, cvars, kvars, nvars, bvars, dvars >>

\* binary_heap_build_from_array(&heap, arr, count)
BuildArr ==
    /\ hstate = "live"
    /\ hlast.op \in {"init", "push"}
    /\ binary_heap_size(other) = Len(arr)
    /\ LET h == binary_heap_build_from_array(heap, arr, build)
       IN  IF build = "trap" /\ h.ub THEN Trapped
           ELSE /\ heap' = h
                /\ hlast' = HeapOp("build", NULL)
                /\ UNCHANGED << other, hstate, arr, out, out2 >>
    /\ UNCHANGED build
    /\ UNCHANGED << hvars, svars, cvars, kvars, nvars, bvars, dvars >>

\* binary_heap_pop(&other), while other is not empty
PopOther ==
    /\ hstate = "live"
    /\ hlast.op \in {"build", "pop_other"}
    /\ ~binary_heap_is_empty(other)
    /\ LET r == binary_heap_pop(other, build)
       IN  IF build = "trap" /\ r.heap.ub THEN Trapped
           ELSE /\ other' = r.heap
                /\ out2' = Append(out2, r.ret)
                /\ hlast' = HeapOp("pop_other", r.ret)
                /\ UNCHANGED << heap, hstate, arr, out >>
    /\ UNCHANGED build
    /\ UNCHANGED << hvars, svars, cvars, kvars, nvars, bvars, dvars >>

\* binary_heap_pop(&heap), while heap is not empty
PopHeap ==
    /\ hstate = "live"
    /\ hlast.op \in {"build", "pop_other", "pop"}
    /\ binary_heap_is_empty(other)
    /\ ~binary_heap_is_empty(heap)
    /\ LET r == binary_heap_pop(heap, build)
       IN  IF build = "trap" /\ r.heap.ub THEN Trapped
           ELSE /\ heap' = r.heap
                /\ out' = Append(out, r.ret)
                /\ hlast' = HeapOp("pop", r.ret)
                /\ UNCHANGED << other, hstate, arr, out2 >>
    /\ UNCHANGED build
    /\ UNCHANGED << hvars, svars, cvars, kvars, nvars, bvars, dvars >>

DrainNext ==
    \/ PushNext
    \/ BuildArr
    \/ PopOther
    \/ PopHeap

SpecDrain == DrainInit /\ [][DrainNext]_vars

\* ------------------------------------------------------------ merge

\* Two heaps with the same comparator.
MergeInit ==
    /\ TableUnused
    /\ SetsUnused
    /\ ContainersUnused
    /\ ChainUnused
    /\ CompareUnused
    /\ PlayersUnused
    /\ ArrayUnused
    /\ \E compare \in Comparators :
        /\ heap = binary_heap_init(compare, 0)
        /\ other = binary_heap_init(compare, 0)
    /\ hstate = "live"
    /\ build \in Builds
    /\ hlast = HeapOp("init", NULL)
    /\ arr = << >>
    /\ out = << >>
    /\ out2 = << >>

\* binary_heap_push(&heap, e), before the merge
PushSelf(e) ==
    /\ hstate = "live"
    /\ hlast.op # "merge"
    /\ binary_heap_size(heap) < MaxMergeLen
    /\ LET h == binary_heap_push(heap, e, build)
       IN  IF build = "trap" /\ h.ub THEN Trapped
           ELSE /\ heap' = h
                /\ hlast' = HeapOp("push", NULL)
                /\ UNCHANGED << other, hstate, arr, out, out2 >>
    /\ UNCHANGED build
    /\ UNCHANGED << hvars, svars, cvars, kvars, nvars, bvars, dvars >>

\* binary_heap_push(&other, e), before the merge
PushOther(e) ==
    /\ hstate = "live"
    /\ hlast.op # "merge"
    /\ binary_heap_size(other) < MaxMergeLen
    /\ LET h == binary_heap_push(other, e, build)
       IN  IF build = "trap" /\ h.ub THEN Trapped
           ELSE /\ other' = h
                /\ hlast' = HeapOp("push_other", NULL)
                /\ UNCHANGED << heap, hstate, arr, out, out2 >>
    /\ UNCHANGED build
    /\ UNCHANGED << hvars, svars, cvars, kvars, nvars, bvars, dvars >>

\* binary_heap_merge(&heap, &other)
Merge ==
    /\ hstate = "live"
    /\ hlast.op # "merge"
    /\ LET r == binary_heap_merge(heap, other, build)
       IN  IF build = "trap" /\ (r.heap1.ub \/ r.heap2.ub) THEN Trapped
           ELSE /\ heap' = r.heap1
                /\ other' = r.heap2
                /\ hlast' = HeapOp("merge", NULL)
                /\ UNCHANGED << hstate, arr, out, out2 >>
    /\ UNCHANGED build
    /\ UNCHANGED << hvars, svars, cvars, kvars, nvars, bvars, dvars >>

MergeNext ==
    \/ \E e \in Ptrs : PushSelf(e)
    \/ \E e \in Ptrs : PushOther(e)
    \/ Merge

SpecMerge == MergeInit /\ [][MergeNext]_vars

\* ------------------------------------------------------------ build

\* binary_heap_build_from_array(&heap, arr, count) on the heap as it is, empty
\* or holding elements.
BuildAny ==
    /\ hstate = "live"
    /\ LET h == binary_heap_build_from_array([heap EXCEPT !.ub = FALSE], arr, build)
       IN  IF build = "trap" /\ h.ub THEN Trapped
           ELSE /\ heap' = h
                /\ hlast' = HeapOp("build", NULL)
                /\ UNCHANGED << other, hstate, arr, out, out2 >>
    /\ UNCHANGED build
    /\ UNCHANGED << hvars, svars, cvars, kvars, nvars, bvars, dvars >>

\* A heap and an array: pushes to the heap and builds from the array, in any
\* order.
BuildNext ==
    \/ \E e \in Ptrs : PushSelf(e)
    \/ BuildAny

SpecBuild == DrainInit /\ [][BuildNext]_vars

\* ------------------------------------------------------------ merge loop

\* The call binary_heap_merge(heap1, heap2) is entered, with heap2 = &other
\* (self = FALSE) or with heap1 = heap2 = &heap (self = TRUE).  hstate is the
\* position: "merging" or "merging_self" at the loop test, "merging_popped" or
\* "merging_self_popped" between the two statements of the body, "merged"
\* after the return.
MergeCall(self) ==
    /\ hstate = "live"
    /\ hstate' = IF self THEN "merging_self" ELSE "merging"
    /\ hlast' = HeapOp("merge_call", NULL)
    /\ UNCHANGED << heap, other, build, arr, out, out2 >>
    /\ UNCHANGED << hvars, svars, cvars, kvars, nvars, bvars, dvars >>

\* The loop test !binary_heap_is_empty(heap2) and, if it holds, the statement
\* element = binary_heap_pop(heap2).  hlast.ret holds element.
MergePop ==
    /\ hstate \in {"merging", "merging_self"}
    /\ LET heap2 == IF hstate = "merging_self" THEN heap ELSE other
       IN  IF binary_heap_is_empty(heap2)
           THEN /\ hstate' = "merged"
                /\ hlast' = HeapOp("merge", NULL)
                /\ UNCHANGED << heap, other >>
           ELSE LET p == binary_heap_pop(heap2, build)
                IN  IF build = "trap" /\ p.heap.ub
                    THEN /\ heap' = NoHeap
                         /\ other' = NoHeap
                         /\ hstate' = "trapped"
                         /\ hlast' = HeapOp("trap", NULL)
                    ELSE /\ heap' = IF hstate = "merging_self" THEN p.heap ELSE heap
                         /\ other' = IF hstate = "merging_self" THEN other ELSE p.heap
                         /\ hstate' = IF hstate = "merging_self"
                                      THEN "merging_self_popped" ELSE "merging_popped"
                         /\ hlast' = HeapOp("merge_pop", p.ret)
    /\ UNCHANGED << build, arr, out, out2 >>
    /\ UNCHANGED << hvars, svars, cvars, kvars, nvars, bvars, dvars >>

\* The statement binary_heap_push(heap1, element), and back to the loop test.
MergePush ==
    /\ hstate \in {"merging_popped", "merging_self_popped"}
    /\ LET h == binary_heap_push(heap, hlast.ret, build)
       IN  IF build = "trap" /\ h.ub
           THEN /\ heap' = NoHeap
                /\ other' = NoHeap
                /\ hstate' = "trapped"
                /\ hlast' = HeapOp("trap", NULL)
           ELSE /\ heap' = h
                /\ other' = other
                /\ hstate' = IF hstate = "merging_self_popped"
                             THEN "merging_self" ELSE "merging"
                /\ hlast' = HeapOp("merge_push", NULL)
    /\ UNCHANGED << build, arr, out, out2 >>
    /\ UNCHANGED << hvars, svars, cvars, kvars, nvars, bvars, dvars >>

MergeLoopNext ==
    \/ \E e \in Ptrs : PushSelf(e)
    \/ \E e \in Ptrs : PushOther(e)
    \/ \E self \in BOOLEAN : MergeCall(self)
    \/ MergePop
    \/ MergePush

SpecMergeLoop == MergeInit /\ [][MergeLoopNext]_vars

\* The loop runs on: a call that has been entered keeps executing.
SpecMergeLoopFair == SpecMergeLoop /\ WF_vars(MergePop) /\ WF_vars(MergePush)

\* ------------------------------------------------------------ stacks

Elems == 1 .. NumElems

\* The capacities given to stack_init_with_capacity.
StackCaps == {0, 1}

\* The process has called exit in dynarray_resize.
ContExit ==
    /\ stack' = NoStack
    /\ pending' = << >>
    /\ clast' = ContOp("exit", NULL)
    /\ cstate' = "exited"

\* One stack, initialised by stack_init or by stack_init_with_capacity.
StackInit ==
    /\ TableUnused
    /\ SetsUnused
    /\ HeapsUnused
    /\ ChainUnused
    /\ CompareUnused
    /\ PlayersUnused
    /\ ArrayUnused
    /\ \/ stack = stack_init
       \/ \E c \in StackCaps : stack = stack_init_with_capacity(c)
    /\ queue = NoQueue
    /\ pending = << >>
    /\ dropped = FALSE
    /\ clast = ContOp("init", NULL)
    /\ cstate = "live"

\* stack_push(&stack, e); alloc_ok: realloc returns the array.
StackPush(e, alloc_ok) ==
    /\ cstate = "live"
    /\ stack_size(stack) < MaxStackLen
    /\ IF dynarray_push_resizes(stack.array) /\ ~alloc_ok
       THEN ContExit
       ELSE /\ stack' = stack_push(stack, e)
            /\ pending' = Append(pending, e)
            /\ clast' = ContOp("push", NULL)
            /\ cstate' = cstate
    /\ UNCHANGED << queue, dropped >>
    /\ UNCHANGED << hvars, svars, qvars, kvars, nvars, bvars, dvars >>

\* stack_pop(&stack); alloc_ok: realloc returns the array.
StackPop(alloc_ok) ==
    /\ cstate = "live"
    /\ IF dynarray_pop_resizes(stack.array) /\ ~alloc_ok
       THEN ContExit
       ELSE LET r == stack_pop(stack)
            IN  /\ stack' = r.stack
                /\ pending' = SubSeq(pending, 1, Len(pending) - 1)
                /\ clast' = ContOp("pop", r.ret)
                /\ cstate' = cstate
    /\ UNCHANGED << queue, dropped >>
    /\ UNCHANGED << hvars, svars, qvars, kvars, nvars, bvars, dvars >>

\* stack_peek(&stack)
StackPeek ==
    /\ cstate = "live"
    /\ clast' = ContOp("peek", stack_peek(stack))
    /\ UNCHANGED << stack, pending, cstate, queue, dropped >>
    /\ UNCHANGED << hvars, svars, qvars, kvars, nvars, bvars, dvars >>

StackNext ==
    \/ \E e \in Elems, alloc_ok \in BOOLEAN : StackPush(e, alloc_ok)
    \/ \E alloc_ok \in BOOLEAN : StackPop(alloc_ok)
    \/ StackPeek

SpecStack == StackInit /\ [][StackNext]_vars

\* ------------------------------------------------------------ queues

\* One queue, initialised by queue_init.
QueueInit ==
    /\ TableUnused
    /\ SetsUnused
    /\ HeapsUnused
    /\ ChainUnused
    /\ CompareUnused
    /\ PlayersUnused
    /\ ArrayUnused
    /\ stack = NoStack
    /\ queue = queue_init
    /\ pending = << >>
    /\ dropped = FALSE
    /\ clast = ContOp("init", NULL)
    /\ cstate = "live"

\* queue_enqueue(&queue, e); node_ok: malloc returns a node.
QueueEnqueue(e, node_ok) ==
    /\ Len(pending) < MaxQueueLen
    /\ queue' = queue_enqueue(queue, e, node_ok)
    /\ pending' = Append(pending, e)
    /\ dropped' = (dropped \/ ~node_ok)
    /\ clast' = ContOp("enqueue", NULL)
    /\ UNCHANGED << stack, cstate >>
    /\ UNCHANGED << hvars, svars, qvars, kvars, nvars, bvars, dvars >>

\* queue_dequeue(&queue)
QueueDequeue ==
    /\ LET r == queue_dequeue(queue)
       IN  /\ queue' = r.queue
           /\ clast' = ContOp("dequeue", r.ret)
    /\ pending' = IF pending = << >> THEN pending ELSE Tail(pending)
    /\ UNCHANGED << stack, dropped, cstate >>
    /\ UNCHANGED << hvars, svars, qvars, kvars, nvars, bvars, dvars >>

\* queue_peek(&queue)
QueuePeek ==
    /\ clast' = ContOp("peek", queue_peek(queue))
    /\ UNCHANGED << queue, pending, stack, dropped, cstate >>
    /\ UNCHANGED << hvars, svars, qvars, kvars, nvars, bvars, dvars >>

QueueNext ==
    \/ \E e \in Elems, node_ok \in BOOLEAN : QueueEnqueue(e, node_ok)
    \/ QueueDequeue
    \/ QueuePeek

SpecQueue == QueueInit /\ [][QueueNext]_vars

\* ------------------------------------------------------------ chains

\* The sequence seq without k.
RECURSIVE Without(_, _)
Without(seq, k) ==
    IF seq = << >> THEN << >>
    ELSE IF Head(seq) = k THEN Without(Tail(seq), k)
    ELSE << Head(seq) >> \o Without(Tail(seq), k)

\* One table of int keys, initialised with a capacity.
ChainInit ==
    /\ TableUnused
    /\ SetsUnused
    /\ HeapsUnused
    /\ ContainersUnused
    /\ CompareUnused
    /\ PlayersUnused
    /\ ArrayUnused
    /\ \E c \in SetCaps : chained = hashtable_init(c)
    /\ inserted = << >>
    /\ rehashed = FALSE

\* hashtable_put(&chained, k, value)
ChainPut(k, entry_ok) ==
    /\ LET r == hashtable_put(chained, k, HASHSET_DUMMY_VALUE, entry_ok)
       IN  /\ chained' = r.t
           /\ inserted' = IF r.ret /\ ~HasKey(chained, k) THEN Append(inserted, k)
                          ELSE inserted
    /\ rehashed' = (rehashed \/ LoadExceeded(chained))
    /\ UNCHANGED << hvars, svars, qvars, cvars, nvars, bvars, dvars >>

\* hashtable_remove(&chained, k)
ChainRemove(k) ==
    /\ chained' = hashtable_remove(chained, k).t
    /\ inserted' = Without(inserted, k)
    /\ UNCHANGED rehashed
    /\ UNCHANGED << hvars, svars, qvars, cvars, nvars, bvars, dvars >>

\* hashtable_clear(&chained)
ChainClear ==
    /\ hashtable_size(chained) > 0
    /\ chained' = hashtable_clear(chained).t
    /\ inserted' = << >>
    /\ UNCHANGED rehashed
    /\ UNCHANGED << hvars, svars, qvars, cvars, nvars, bvars, dvars >>

ChainNext ==
    \/ \E k \in ChainKeys, entry_ok \in BOOLEAN : ChainPut(k, entry_ok)
    \/ \E k \in ChainKeys : ChainRemove(k)
    \/ ChainClear

SpecChain == ChainInit /\ [][ChainNext]_vars

\* ------------------------------------------------------------ comparators on ints

CompareInts ==
    (-MaxSmallInt .. MaxSmallInt)
        \cup { INT_MIN + d : d \in 0 .. MaxSmallInt }
        \cup { INT_MAX - d : d \in 0 .. MaxSmallInt }

\* Two ints, in a process of any build.
CompareInit ==
    /\ TableUnused
    /\ SetsUnused
    /\ ContainersUnused
    /\ ChainUnused
    /\ PlayersUnused
    /\ ArrayUnused
    /\ heap = NoHeap
    /\ other = NoHeap
    /\ hstate = "uninit"
    /\ build \in Builds
    /\ hlast = HeapOp("none", NULL)
    /\ arr = << >>
    /\ out = << >>
    /\ out2 = << >>
    /\ ia \in CompareInts
    /\ ib \in CompareInts
    /\ cres = CmpRes("none", 0)

\* heap_int_compare_min(&ia, &ib): return ia - ib.  A trap build aborts the
\* process when the subtraction overflows.
CompareMin ==
    /\ cres.op # "trap"
    /\ cres' = IF build = "trap" /\ SubOverflows(ia, ib) THEN CmpRes("trap", 0)
               ELSE CmpRes("min", IntSub(ia, ib, build))
    /\ UNCHANGED << ia, ib >>
    /\ UNCHANGED << hvars, svars, qvars, cvars, kvars, bvars, dvars >>

\* heap_int_compare_max(&ia, &ib): return ib - ia.
CompareMax ==
    /\ cres.op # "trap"
    /\ cres' = IF build = "trap" /\ SubOverflows(ib, ia) THEN CmpRes("trap", 0)
               ELSE CmpRes("max", IntSub(ib, ia, build))
    /\ UNCHANGED << ia, ib >>
    /\ UNCHANGED << hvars, svars, qvars, cvars, kvars, bvars, dvars >>

CompareNext == CompareMin \/ CompareMax

SpecCompare == CompareInit /\ [][CompareNext]_vars

\* ------------------------------------------------------------ dynamic array spec

DynElems == 1 .. NumDynElems

\* The capacities given to dynarray_init: the default and two small ones.
DynCaps == {0, 1, 2}

\* The capacities given to dynarray_reserve: none, a small one, and the least
\* from which dynarray_pop shrinks.
ReserveCaps == {0, 4, DYNARRAY_DEFAULT_CAPACITY * DYNARRAY_GROWTH_FACTOR}

\* dynarray_init(&darr, c)
DynInit ==
    /\ TableUnused
    /\ SetsUnused
    /\ HeapsUnused
    /\ ContainersUnused
    /\ ChainUnused
    /\ CompareUnused
    /\ PlayersUnused
    /\ \E c \in DynCaps : darr = dynarray_init(c)
    /\ dlast = ArrOp("init", NULL, FALSE)
    /\ dstate = "live"

\* realloc has returned NULL: dynarray_resize calls exit(EXIT_FAILURE).
DynExit ==
    /\ darr' = [data |-> << >>, capacity |-> 0]
    /\ dlast' = ArrOp("exit", NULL, TRUE)
    /\ dstate' = "exited"

\* dynarray_push(&darr, e); alloc_ok: realloc returns the array.
DynPush(e, alloc_ok) ==
    /\ dstate = "live"
    /\ dynarray_size(darr) < MaxDynLen
    /\ IF dynarray_push_resizes(darr) /\ ~alloc_ok
       THEN DynExit
       ELSE /\ darr' = dynarray_push(darr, e)
            /\ dlast' = ArrOp("push", NULL, dynarray_push_resizes(darr))
            /\ dstate' = dstate
    /\ UNCHANGED << hvars, svars, qvars, cvars, kvars, nvars, bvars >>

\* dynarray_pop(&darr); alloc_ok: realloc returns the array.
DynPop(alloc_ok) ==
    /\ dstate = "live"
    /\ IF dynarray_pop_resizes(darr) /\ ~alloc_ok
       THEN DynExit
       ELSE LET r == dynarray_pop(darr)
            IN  /\ darr' = r.arr
                /\ dlast' = ArrOp("pop", r.ret, dynarray_pop_resizes(darr))
                /\ dstate' = dstate
    /\ UNCHANGED << hvars, svars, qvars, cvars, kvars, nvars, bvars >>

\* dynarray_set(&darr, index, e): returns false if index is out of bounds.
DynSet(index, e) ==
    /\ dstate = "live"
    /\ darr' = dynarray_set(darr, index, e)
    /\ dlast' = ArrOp("set", BoolInt(~(index >= dynarray_size(darr))), FALSE)
    /\ UNCHANGED dstate
    /\ UNCHANGED << hvars, svars, qvars, cvars, kvars, nvars, bvars >>

\* dynarray_clear(&darr)
DynClear ==
    /\ dstate = "live"
    /\ darr' = dynarray_clear(darr)
    /\ dlast' = ArrOp("clear", NULL, FALSE)
    /\ UNCHANGED dstate
    /\ UNCHANGED << hvars, svars, qvars, cvars, kvars, nvars, bvars >>

\* dynarray_reserve(&darr, min_capacity); alloc_ok: realloc returns the array.
DynReserve(min_capacity, alloc_ok) ==
    /\ dstate = "live"
    /\ IF min_capacity > darr.capacity /\ ~alloc_ok
       THEN DynExit
       ELSE /\ darr' = dynarray_reserve(darr, min_capacity)
            /\ dlast' = ArrOp("reserve", NULL, min_capacity > darr.capacity)
            /\ dstate' = dstate
    /\ UNCHANGED << hvars, svars, qvars, cvars, kvars, nvars, bvars >>

DynNext ==
    \/ \E e \in DynElems, alloc_ok \in BOOLEAN : DynPush(e, alloc_ok)
    \/ \E alloc_ok \in BOOLEAN : DynPop(alloc_ok)
    \/ \E index \in 0 .. MaxDynLen, e \in DynElems : DynSet(index, e)
    \/ DynClear
    \/ \E c \in ReserveCaps, alloc_ok \in BOOLEAN : DynReserve(c, alloc_ok)

SpecDyn == DynInit /\ [][DynNext]_vars

\* ------------------------------------------------------------ basketball system

\* The ages given to add_player.
Ages == 20 .. 20 + NumAges - 1

\* The pointer create_player returns for the Player with this player_id.
PlayerPtr(id) == 5 + id

\* create_player, with the members that the heaps of ages and the queries on
\* them read.  ptr is the address of the object.
create_player(id, age) == [ptr |-> PlayerPtr(id), player_id |-> id, age |-> age]

\* player->age for a Player pointer held by the system.
AgeOf(p) == (CHOOSE q \in { players[i] : i \in 1 .. Len(players) } : q.ptr = p).age

min_heap_push(h, element) == binary_heap_push(h, element, build)

max_heap_push(h, element) == binary_heap_push(h, element, build)

min_heap_peek(h) == binary_heap_peek(h)

max_heap_peek(h) == binary_heap_peek(h)

\* basketball_system_init: the array of players, the two heaps of ages and the
\* counter.  players[i] is the Player whose pointer system->players holds at
\* index i - 1.  The hash indices, the heaps of heights and skills, the teams,
\* the leagues and the trades are fields that add_player, get_youngest_player
\* and get_oldest_player do not read to decide what the heaps of ages hold.
basketball_system_init ==
    /\ players = << >>
    /\ youngest_players = min_heap_init(100)
    /\ oldest_players = max_heap_init(100)
    /\ next_player_id = 1

SystemInit ==
    /\ TableUnused
    /\ SetsUnused
    /\ HeapsUnused
    /\ ContainersUnused
    /\ ChainUnused
    /\ CompareUnused
    /\ ArrayUnused
    /\ basketball_system_init
    /\ blast = SysOp("init", NULL)

\* add_player(system, ..., age, ...).  player_ok: the malloc of create_player
\* succeeds; the id is taken from the counter either way.
AddPlayer(age, player_ok) ==
    /\ Len(players) < MaxPlayers
    /\ next_player_id <= MaxPlayerId
    /\ next_player_id' = next_player_id + 1
    /\ IF ~player_ok
       THEN /\ blast' = SysOp("add_player_failed", NULL)
            /\ UNCHANGED << players, youngest_players, oldest_players >>
       ELSE LET player == create_player(next_player_id, age)
            IN  /\ players' = Append(players, player)
                /\ youngest_players' = min_heap_push(youngest_players, player.ptr)
                /\ oldest_players' = max_heap_push(oldest_players, player.ptr)
                /\ blast' = SysOp("add_player", NULL)
    /\ UNCHANGED << hvars, svars, qvars, cvars, kvars, nvars, dvars >>

GetYoungestPlayer ==
    /\ blast' = SysOp("get_youngest_player", min_heap_peek(youngest_players))
    /\ UNCHANGED << players, youngest_players, oldest_players, next_player_id >>
    /\ UNCHANGED << hvars, svars, qvars, cvars, kvars, nvars, dvars >>

GetOldestPlayer ==
    /\ blast' = SysOp("get_oldest_player", max_heap_peek(oldest_players))
    /\ UNCHANGED << players, youngest_players, oldest_players, next_player_id >>
    /\ UNCHANGED << hvars, svars, qvars, cvars, kvars, nvars, dvars >>

SystemNext ==
    \/ \E age \in Ages, player_ok \in BOOLEAN : AddPlayer(age, player_ok)
    \/ GetYoungestPlayer
    \/ GetOldestPlayer

SpecSystem == SystemInit /\ [][SystemNext]_vars

\* ------------------------------------------------------------ checks

Max(a, b) == IF a >= b THEN a ELSE b

\* What get returns for key k when the puts and removes so far give model m.
Expected(m, k) == IF k \in DOMAIN m THEN m[k] ELSE NULL

\* No two entries of the table have equal keys.
NoDupKeys(t) == Cardinality(KeysOf(t)) = EntryCount(t)

\* The pairs of t with key k.
PairsOfKey(t, k) == { e \in Pairs(t) : e.key = k }

\* The step is put(k, v) with malloc succeeding or not: Put(k, v, ok), with
\* two conjuncts it implies in front, which are decided without computing it.
PutStep(k, v, ok) ==
    /\ lastOp'.op = "put"
    /\ lastOp'.ret => (k \in DOMAIN model' /\ model'[k] = v)
    /\ Put(k, v, ok)

\* The step is remove(k): Remove(k), likewise.
RemoveStep(k) ==
    /\ lastOp'.op = "remove"
    /\ k \notin DOMAIN model'
    /\ Remove(k)

\* ---- C1

\* C1 (as stated): every put(k, v) call, whatever it returns, is the most
\* recent put of k, so get(k) returns v after it, the other keys read as
\* before, and size grows by one exactly when k was not stored; every
\* remove(k) leaves k absent and the other keys as before.
C1_GetReturnsLastPut ==
    [][\A k \in Keys :
        /\ \A v \in Vals, ok \in BOOLEAN :
              PutStep(k, v, ok) =>
                /\ hashtable_get(table', k) = v
                /\ \A j \in Keys \ {k} : hashtable_get(table', j) = hashtable_get(table, j)
                /\ hashtable_size(table') =
                      hashtable_size(table) + (IF HasKey(table, k) THEN 0 ELSE 1)
        /\ RemoveStep(k) =>
                /\ hashtable_get(table', k) = NULL
                /\ \A j \in Keys \ {k} : hashtable_get(table', j) = hashtable_get(table, j)
      ]_vars

\* C1 (amended): in every state of a live table, get(k) returns the value of
\* the most recent put of k that returned true (NULL if there is none or k
\* was removed since), and size() is the number of keys with such a put.
C1_GetReturnsLastSuccessfulPut ==
    pstate = "live" =>
        /\ \A k \in Keys : hashtable_get(table, k) = Expected(model, k)
        /\ hashtable_size(table) = Cardinality(DOMAIN model)

\* A put has just replaced the value of a stored key, in a table of several keys.
C1_Witness ==
    /\ lastOp.op = "put" /\ lastOp.ret /\ lastOp.present
    /\ hashtable_size(table) >= 3
    /\ \E k \in DOMAIN model : model[k] # NULL /\ hashtable_get(table, k) = model[k]
    /\ \E k \in Keys : k \notin DOMAIN model

\* ---- C2

\* C2: in every state of a live table no two entries have equal keys; and a
\* put of a key that is stored, with any value and whether or not malloc
\* would succeed, returns true, replaces that key's value, leaves every other
\* pair, the number of entries and size as they were, and makes no key copy.
C2_UniqueKeysUpdateInPlace ==
    pstate = "live" =>
        /\ NoDupKeys(table)
        /\ \A k \in KeysOf(table), v \in Vals, ok \in BOOLEAN :
            LET r == hashtable_put(table, k, v, ok)
            IN  /\ r.ret
                /\ Pairs(r.t) = (Pairs(table) \ PairsOfKey(table, k)) \cup {Entry(k, v)}
                /\ EntryCount(r.t) = EntryCount(table)
                /\ r.t.size = table.size
                /\ r.copies = 0

\* A put has just met its key in a chain of at least two entries.
C2_Witness ==
    /\ lastOp.op = "put" /\ lastOp.present /\ lastOp.ret
    /\ \E i \in DOMAIN table.buckets : Len(table.buckets[i]) >= 2

\* ---- C3

\* C3: remove(k) of a key that is not stored returns false and leaves size
\* unchanged; of a stored key it returns true, decreases size by exactly 1,
\* and contains(k) is false afterwards.
C3_RemoveResult ==
    [][\A k \in Keys :
        RemoveStep(k) =>
            IF HasKey(table, k)
            THEN /\ lastOp'.ret
                 /\ hashtable_size(table') = hashtable_size(table) - 1
                 /\ ~hashtable_contains(table', k)
                 /\ ~HasKey(table', k)
            ELSE /\ ~lastOp'.ret
                 /\ hashtable_size(table') = hashtable_size(table)
      ]_vars

\* A remove has just taken a key out and left others behind.
C3_Witness ==
    /\ lastOp.op = "remove" /\ lastOp.ret /\ lastOp.present
    /\ hashtable_size(table) >= 2

\* ---- C4

\* C4: in every state of a live table (after init, put, remove, clear, and
\* after a resize, whose result a put that then fails to allocate leaves as
\* the table), size is the number of entries reachable through the chains.
C4_SizeIsEntryCount ==
    pstate = "live" => table.size = EntryCount(table)

\* A put has just resized a table and left entries in it.
C4_Witness ==
    /\ lastOp.op = "put" /\ lastOp.resized
    /\ table.size >= 6

\* ---- C5

\* C5 (as stated): whatever capacity the table was initialised with,
\* immediately after every put that returns true, size / capacity <= 0.75.
C5_LoadFactorAfterPut ==
    (pstate = "live" /\ lastOp.op = "put" /\ lastOp.ret) =>
        4 * table.size <= 3 * table.capacity

\* C5 (amended): immediately after every put that returns true,
\* size - 1 < 0.75 * capacity; and size / capacity <= 0.75 when capacity is a
\* multiple of 4, as it is for a table initialised with a multiple of 4 or
\* with less than 8.
C5_LoadFactorAfterPutMultipleOf4 ==
    (pstate = "live" /\ lastOp.op = "put" /\ lastOp.ret) =>
        /\ 4 * (table.size - 1) < 3 * table.capacity
        /\ table.capacity % 4 = 0 => 4 * table.size <= 3 * table.capacity

\* A put has just filled a table of capacity 8 to exactly 0.75.
C5_Witness ==
    /\ pstate = "live" /\ lastOp.op = "put" /\ lastOp.ret /\ ~lastOp.present
    /\ table.capacity % 4 = 0
    /\ 4 * table.size = 3 * table.capacity

\* ---- C6

\* C6: init with requested capacity c yields capacity max(c, 8) and size 0;
\* a live table has capacity at least 8; and every put, remove and clear
\* leaves capacity unchanged or exactly doubles it.
C6_CapacityFloorAndDoubling ==
    [][/\ \A c \in InitCaps :
            DoInit(c) => /\ table'.capacity = Max(c, HASHTABLE_MIN_SIZE)
                         /\ table'.size = 0
       /\ pstate' = "live" => table'.capacity >= HASHTABLE_MIN_SIZE
       /\ (pstate = "live" /\ pstate' = "live") =>
            \/ table'.capacity = table.capacity
            \/ table'.capacity = 2 * table.capacity
      ]_vars

\* A put has just doubled the capacity of a table.
C6_Witness ==
    /\ lastOp.op = "put" /\ lastOp.resized
    /\ table.capacity = 2 * HASHTABLE_MIN_SIZE

\* ---- C7

\* C7: when a put resizes, the table right after the rehash holds exactly the
\* pairs it held before, as many entries, and the same size; and the put then
\* ends with those pairs, changed only at its own key.
C7_ResizeKeepsPairs ==
    [][lastOp'.resized =>
        \A k \in Keys, v \in Vals, ok \in BOOLEAN :
            PutStep(k, v, ok) =>
                LET r == PutResize(table)
                IN  /\ r.capacity # table.capacity
                    /\ Pairs(r) = Pairs(table)
                    /\ EntryCount(r) = EntryCount(table)
                    /\ r.size = table.size
                    /\ Pairs(table') =
                          IF lastOp'.ret
                          THEN (Pairs(table) \ PairsOfKey(table, k)) \cup {Entry(k, v)}
                          ELSE Pairs(table)
      ]_vars

\* A put has just resized a table in which two entries share a chain.
C7_Witness ==
    /\ lastOp.op = "put" /\ lastOp.resized
    /\ table.size >= 6
    /\ \E i \in DOMAIN table.buckets : Len(table.buckets[i]) >= 2

\* ---- C8

\* C8 (as stated): a put of a key that is stored never changes capacity,
\* whatever the size is.
C8_UpdateNeverResizes ==
    pstate = "live" =>
        \A k \in KeysOf(table), v \in Vals, ok \in BOOLEAN :
            hashtable_put(table, k, v, ok).t.capacity = table.capacity

\* C8 (amended): a put of a key that is stored doubles capacity when
\* size >= 0.75 * capacity holds before the call, and leaves capacity
\* unchanged otherwise.
C8_UpdateResizesAtThreshold ==
    pstate = "live" =>
        \A k \in KeysOf(table), v \in Vals, ok \in BOOLEAN :
            hashtable_put(table, k, v, ok).t.capacity =
                IF 4 * table.size >= 3 * table.capacity
                THEN 2 * table.capacity ELSE table.capacity

\* A put of a stored key has just resized the table.
C8_Witness ==
    /\ lastOp.op = "put" /\ lastOp.present /\ lastOp.resized /\ lastOp.ret
    /\ table.size = 6

\* ---- C9

\* C9: add(k) returns true exactly when k was not a member before the call;
\* after the call k is a member; size has grown by 1 if it returned true and
\* is unchanged if it returned false.
C9_AddResult ==
    [][\A k \in SetKeys, ok \in BOOLEAN :
        AddA(k, ok) =>
            /\ setOp'.ret = ~hashset_contains(setA, k)
            /\ hashset_contains(setA', k)
            /\ hashset_size(setA') = hashset_size(setA) + (IF setOp'.ret THEN 1 ELSE 0)
      ]_vars

\* C9 when malloc succeeds: the same, for every add whose entry is allocated.
C9_AddResultAllocOk ==
    [][\A k \in SetKeys :
        AddA(k, TRUE) =>
            /\ setOp'.ret = ~hashset_contains(setA, k)
            /\ hashset_contains(setA', k)
            /\ hashset_size(setA') = hashset_size(setA) + (IF setOp'.ret THEN 1 ELSE 0)
      ]_vars

\* ---- C10

\* C10: after hashset_intersection(A, B, result) on an empty result set, the
\* result holds exactly the keys that are members of both A and B.
C10_IntersectionResult ==
    setOp.op = "intersection" =>
        /\ KeysOf(result) = Common(setA, setB)
        /\ \A k \in SetKeys :
              hashset_contains(result, k) <=>
                  (hashset_contains(setA, k) /\ hashset_contains(setB, k))

\* C10 when malloc succeeds: the same, after an intersection in which every
\* entry was allocated.
C10_IntersectionResultAllocOk ==
    (setOp.op = "intersection" /\ ~setOp.failed) =>
        /\ KeysOf(result) = Common(setA, setB)
        /\ hashset_size(result) = Cardinality(Common(setA, setB))
        /\ \A k \in SetKeys :
              hashset_contains(result, k) <=>
                  (hashset_contains(setA, k) /\ hashset_contains(setB, k))

\* ------------------------------------------------------------ heap checks

\* The heap-order property: the comparator ranks no element strictly ahead of
\* its parent at index (i - 1) / 2.
HeapOrdered(h) ==
    \A i \in 1 .. binary_heap_size(h) - 1 :
        Compare(h.compare, dynarray_get(h.data, HEAP_PARENT(i)),
                dynarray_get(h.data, i), build) <= 0

\* The heap-order property by the order of the integers pointed to.
IntOrdered(h) ==
    \A i \in 1 .. binary_heap_size(h) - 1 :
        LET parent == IntAt(dynarray_get(h.data, HEAP_PARENT(i)))
            child == IntAt(dynarray_get(h.data, i))
        IN  IF h.compare = "min" THEN parent <= child ELSE parent >= child

\* The elements held, as a function from each pointer to its number of copies.
BagOf(h) ==
    [p \in Ptrs |-> Cardinality({ i \in 1 .. Len(h.data.data) : h.data.data[i] = p })]

\* ---- C11
\* C11: after any interleaving of push, pop and replace on a heap that starts
\* empty, the heap-order property holds and isValid() returns true.
C11_HeapOrderAfterAnyInterleaving ==
    hstate = "live" => HeapOrdered(heap) /\ binary_heap_is_valid(heap, build)

\* While no comparison made by the operations has overflowed, no element is
\* smaller (min-heap) or larger (max-heap) than its parent as an integer; and
\* in an exact build the claim holds.
C11_HeapOrderWithoutOverflow ==
    /\ (hstate = "live" /\ ~heap.ub) => IntOrdered(heap)
    /\ (hstate = "live" /\ build = "exact") =>
            HeapOrdered(heap) /\ binary_heap_is_valid(heap, build)

\* The ints pointed to by the elements of a sequence.
IntsOf(s) == [i \in 1 .. Len(s) |-> IntAt(s[i])]

\* A sequence of ints is in the order a min-heap (non-decreasing) or a max-heap
\* (non-increasing) is drained in.
DrainOrder(compare, ints) ==
    \A i \in 1 .. Len(ints) - 1 :
        IF compare = "min" THEN ints[i] <= ints[i + 1] ELSE ints[i] >= ints[i + 1]

\* The number of copies of each pointer in a sequence.
BagOfSeq(s) == [p \in Ptrs |-> Cardinality({ i \in 1 .. Len(s) : s[i] = p })]

\* ---- C12
\* C12: for any sequence of integer elements pushed into a heap, popping until
\* the heap is empty returns the elements in non-decreasing order for a
\* min-heap and in non-increasing order for a max-heap.
C12_DrainIsSorted ==
    hstate = "live" =>
        /\ DrainOrder(other.compare, IntsOf(out2))
        /\ (hlast.op \in {"pop_other", "pop"} /\ binary_heap_is_empty(other)) =>
                BagOfSeq(out2) = BagOfSeq(arr)

\* The same, while no comparison has overflowed.
C12_DrainIsSortedWithoutOverflow ==
    (hstate = "live" /\ ~other.ub) =>
        /\ DrainOrder(other.compare, IntsOf(out2))
        /\ (hlast.op \in {"pop_other", "pop"} /\ binary_heap_is_empty(other)) =>
                BagOfSeq(out2) = BagOfSeq(arr)

\* ---- C13
\* C13: for any array, buildFromArray on an empty heap followed by popping
\* until empty yields the same output sequence, by comparator order, as
\* pushing the same elements one by one and then popping until empty.
C13_BuildDrainEqualsPushDrain ==
    (hstate = "live" /\ hlast.op # "init"
        /\ binary_heap_is_empty(heap) /\ binary_heap_is_empty(other)) =>
        /\ Len(out) = Len(out2)
        /\ \A i \in 1 .. Len(out) : Compare(heap.compare, out[i], out2[i], build) = 0

\* The same, while no comparison has overflowed.
C13_BuildDrainEqualsPushDrainWithoutOverflow ==
    (hstate = "live" /\ hlast.op # "init" /\ ~heap.ub /\ ~other.ub
        /\ binary_heap_is_empty(heap) /\ binary_heap_is_empty(other)) =>
        /\ Len(out) = Len(out2)
        /\ \A i \in 1 .. Len(out) : Compare(heap.compare, out[i], out2[i], build) = 0

\* The elements of a heap, as a set.
ElementsOf(h) == { h.data.data[i] : i \in 1 .. Len(h.data.data) }

\* No element of h is ranked strictly ahead of e by the comparator.
RankedFirst(h, e) ==
    \A x \in ElementsOf(h) : ~(Compare(h.compare, x, e, build) < 0)

\* No element of h is ahead of e by the order of the integers pointed to.
IntFirst(h, e) ==
    \A x \in ElementsOf(h) :
        IF h.compare = "min" THEN IntAt(e) <= IntAt(x) ELSE IntAt(e) >= IntAt(x)

\* A step that is a pop which returned.
PopStep == HeapPop /\ hlast'.op = "pop"

\* ---- C14
\* C14: pop on an empty heap returns the absent signal and leaves the heap
\* unchanged; pop on a non-empty heap returns an element e such that the
\* comparator ranks no element held before the call ahead of e, and decreases
\* size by exactly 1.
C14_PopResult ==
    [][PopStep =>
        IF binary_heap_size(heap) = 0
        THEN hlast'.ret = NULL /\ heap' = heap
        ELSE /\ hlast'.ret \in ElementsOf(heap)
             /\ RankedFirst(heap, hlast'.ret)
             /\ binary_heap_size(heap') = binary_heap_size(heap) - 1]_vars

\* The same by the order of the integers, while no comparison has overflowed.
C14_PopResultWithoutOverflow ==
    [][PopStep =>
        IF binary_heap_size(heap) = 0
        THEN hlast'.ret = NULL /\ heap' = heap
        ELSE /\ hlast'.ret \in ElementsOf(heap)
             /\ ~heap.ub => IntFirst(heap, hlast'.ret)
             /\ BagOf(heap') = [BagOf(heap) EXCEPT ![hlast'.ret] = @ - 1]
             /\ binary_heap_size(heap') = binary_heap_size(heap) - 1]_vars

\* ---- C15
\* C15: peek on an empty heap returns the absent signal; on a non-empty heap it
\* returns the element the next pop would return; it changes neither the
\* heap's contents nor its size.
C15_PeekResult ==
    [][HeapPeek =>
        /\ binary_heap_size(heap) = 0 => hlast'.ret = NULL
        /\ binary_heap_size(heap) > 0 =>
                hlast'.ret # NULL /\ hlast'.ret = binary_heap_pop(heap, build).ret
        /\ heap' = heap
        /\ binary_heap_size(heap') = binary_heap_size(heap)]_vars

\* A peek has returned the root of a heap of three or more elements, which is
\* not its last element.
C15_Witness ==
    /\ hlast.op = "peek"
    /\ binary_heap_size(heap) >= 3
    /\ hlast.ret = dynarray_get(heap.data, 0)
    /\ hlast.ret # dynarray_get(heap.data, binary_heap_size(heap) - 1)

\* A step that is a replace which returned.
ReplaceStep(e) == HeapReplace(e) /\ hlast'.op = "replace"

\* What C16 says of a replace(e) that returned, but for the heap order.
ReplaceEffect(e) ==
    IF binary_heap_size(heap) = 0
    THEN /\ hlast'.ret = NULL
         /\ heap' = binary_heap_push(heap, e, build)
         /\ heap'.data.data = << e >>
    ELSE /\ hlast'.ret = dynarray_get(heap.data, 0)
         /\ binary_heap_size(heap') = binary_heap_size(heap)
         /\ \A p \in Ptrs :
                BagOf(heap')[p] = BagOf(heap)[p] - (IF p = hlast'.ret THEN 1 ELSE 0)
                                                + (IF p = e THEN 1 ELSE 0)

\* ---- C16
\* C16: replace(e) on an empty heap behaves as push(e) and returns the absent
\* signal; on a non-empty heap it returns the old root, leaves size unchanged,
\* leaves the heap holding the previous elements minus that root plus e, and
\* the heap-order property holds afterwards.
C16_ReplaceResult ==
    [][\A e \in Ptrs : ReplaceStep(e) =>
        /\ ReplaceEffect(e)
        /\ HeapOrdered(heap) => HeapOrdered(heap')]_vars

\* The same by the order of the integers, while no comparison has overflowed.
C16_ReplaceResultWithoutOverflow ==
    [][\A e \in Ptrs : ReplaceStep(e) =>
        /\ ReplaceEffect(e)
        /\ ~heap'.ub => IntOrdered(heap')]_vars

\* A step that is a merge which returned.
MergeStep == Merge /\ hlast'.op = "merge"

\* What C17 says of a merge that returned, but for the heap order.
MergeEffect ==
    /\ binary_heap_is_empty(other')
    /\ binary_heap_size(heap') = binary_heap_size(heap) + binary_heap_size(other)
    /\ \A p \in Ptrs : BagOf(heap')[p] = BagOf(heap)[p] + BagOf(other)[p]

\* ---- C17
\* C17: for two distinct heaps self (n elements) and other (m elements) with
\* the same comparator, after self.merge(other) the heap other is empty, self
\* holds exactly the n + m elements of both, and self satisfies the heap-order
\* property.
C17_MergeResult ==
    [][MergeStep =>
        /\ MergeEffect
        /\ (HeapOrdered(heap) /\ HeapOrdered(other)) =>
                HeapOrdered(heap') /\ binary_heap_is_valid(heap', build)]_vars

\* The same by the order of the integers, while no comparison has overflowed.
C17_MergeResultWithoutOverflow ==
    [][MergeStep =>
        /\ MergeEffect
        /\ (~heap'.ub /\ ~other'.ub) => IntOrdered(heap')]_vars

\* ------------------------------------------------------------ allocation checks

\* An allocation that hashtable_put(&t, key, ...) makes fails.
AllocFails(t, key, buckets_ok, entry_ok, key_ok) ==
    \/ LoadExceeded(t) /\ ~buckets_ok
    \/ /\ ~HasKey(t, key)
       /\ ~entry_ok \/ ~key_ok

\* A step that is a put of a new key whose HashEntry could not be allocated.
EntryFailStep(k) ==
    /\ lastOp'.op = "put" /\ ~lastOp'.ret
    /\ ~HasKey(table, k)
    /\ \E v \in Vals : Put(k, v, FALSE)

\* A step that is a put which ended the process.
ExitStep(k) ==
    /\ lastOp'.op \in {"exit_buckets", "exit_key"}
    /\ \E buckets_ok \in BOOLEAN, entry_ok \in BOOLEAN, key_ok \in BOOLEAN :
        PutExit(k, buckets_ok, entry_ok, key_ok)

\* ---- C18
\* C18: an allocation failure at any step of a put (growing the bucket array,
\* creating the entry, copying the key) is fatal: the process terminates and
\* put never returns to its caller after an allocation has failed.
C18_AllocFailureIsFatal ==
    /\ [](pstate = "live" =>
            \A k \in Keys, buckets_ok \in BOOLEAN, entry_ok \in BOOLEAN, key_ok \in BOOLEAN :
                AllocFails(table, k, buckets_ok, entry_ok, key_ok) =>
                    hashtable_put_exits(table, k, buckets_ok, entry_ok, key_ok))
    /\ [][\A k \in Keys : (EntryFailStep(k) \/ ExitStep(k)) => pstate' = "exited"]_vars

\* C18, amended: a failure to allocate the new bucket array or the copy of the
\* key is fatal; a failure to allocate the entry is not: put returns false,
\* with the pairs and the size as they were.
C18_AllocFailureIsFatalButForEntry ==
    /\ [](pstate = "live" =>
            \A k \in Keys, buckets_ok \in BOOLEAN, entry_ok \in BOOLEAN, key_ok \in BOOLEAN :
                hashtable_put_exits(table, k, buckets_ok, entry_ok, key_ok) <=>
                    \/ LoadExceeded(table) /\ ~buckets_ok
                    \/ ~HasKey(table, k) /\ entry_ok /\ ~key_ok)
    /\ [][\A k \in Keys :
            /\ ExitStep(k) => pstate' = "exited"
            /\ EntryFailStep(k) =>
                /\ pstate' = "live"
                /\ lastOp'.op = "put" /\ ~lastOp'.ret
                /\ Pairs(table') = Pairs(table)
                /\ hashtable_size(table') = hashtable_size(table)]_vars

\* The process has exited in a put of a new key whose key copy failed.
C18_Witness ==
    /\ pstate = "exited"
    /\ lastOp.op = "exit_key"
    /\ ~lastOp.present

\* ------------------------------------------------------------ ownership checks

\* owned counts the key copies made and not yet released: it equals size, and
\* the number of entries, between init and free, and is 0 outside.
OwnedIsSize ==
    /\ pstate = "live" => owned = hashtable_size(table) /\ owned = EntryCount(table)
    /\ pstate = "uninit" => owned = 0

\* What remove, clear and free release.  lastOp'.op names the operation of the
\* step, and lastOp'.present says whether its key was in the table.
ReleasesOnce ==
    /\ lastOp'.op = "remove" => owned' = owned - (IF lastOp'.present THEN 1 ELSE 0)
    /\ lastOp'.op = "clear" => owned' = 0 /\ hashtable_clear(table).freed = owned
    /\ lastOp'.op = "free" => owned' = 0 /\ hashtable_free(table).freed = owned

\* ---- C19
\* C19: between init and free, the number of key copies created and not yet
\* released equals size in every state: a put of a new key creates exactly one
\* copy, a put of an existing key creates none, remove releases exactly the
\* removed entry's key once, clear and free release every remaining key
\* exactly once.
C19_KeyCopiesEqualSize ==
    /\ []OwnedIsSize
    /\ [][/\ lastOp'.op = "put" => owned' = owned + (IF lastOp'.present THEN 0 ELSE 1)
          /\ ReleasesOnce]_vars

\* C19, amended: a put of a new key creates exactly one copy if it returns
\* true and none if it returns false.
C19_KeyCopiesEqualSizePutTrue ==
    /\ []OwnedIsSize
    /\ [][/\ lastOp'.op = "put" =>
                owned' = owned + (IF ~lastOp'.present /\ lastOp'.ret THEN 1 ELSE 0)
          /\ ReleasesOnce]_vars

\* A remove has released the key of an entry of a table that still holds two
\* or more.
C19_Witness ==
    /\ pstate = "live"
    /\ lastOp.op = "remove" /\ lastOp.present
    /\ owned >= 2
    /\ owned = hashtable_size(table)

\* ------------------------------------------------------------ read checks

\* The queries that SpecRead makes.
ReadOps == {"get", "contains", "size", "is_empty", "is_subset", "equals"}

\* The result of making the query q again on the sets a and b.
Again(q, a, b) ==
    CASE q.op = "get" -> hashtable_get(a, q.key)
      [] q.op = "contains" -> BoolInt(hashtable_contains(a, q.key))
      [] q.op = "size" -> hashtable_size(a)
      [] q.op = "is_empty" -> BoolInt(hashtable_is_empty(a))
      [] q.op = "is_subset" -> BoolInt(hashset_is_subset(a, b))
      [] q.op = "equals" -> BoolInt(hashset_equals(a, b))

\* A step that is one of the read-only queries.
ReadStep ==
    /\ rd'.op \in ReadOps
    /\ \/ \E k \in SetKeys : ReadGet(k) \/ ReadContains(k)
       \/ ReadSize \/ ReadIsEmpty \/ ReadSubset \/ ReadEquals

MostRecent(p) == IF p = << >> THEN NULL ELSE p[Len(p)]

\* The earliest given element of those not yet returned (NULL if none).
Earliest(p) == IF p = << >> THEN NULL ELSE p[1]

\* A step that is a stack_pop which returned.
StackPopStep ==
    /\ clast'.op = "pop"
    /\ \E alloc_ok \in BOOLEAN : StackPop(alloc_ok)

\* A step that is a stack_peek.
StackPeekStep == clast'.op = "peek" /\ StackPeek

\* ---- C21
\* Stack is LIFO: pop returns the most recently pushed element that has not
\* yet been popped, peek returns that element and leaves the size as it was,
\* and pop or peek on an empty stack returns NULL.
C21_StackIsLifo ==
    /\ [](cstate = "live" => stack_size(stack) = Len(pending))
    /\ [][/\ StackPopStep =>
               /\ clast'.ret = MostRecent(pending)
               /\ stack_size(stack) = 0 => clast'.ret = NULL
               /\ stack_size(stack') = IF stack_size(stack) = 0 THEN 0
                                       ELSE stack_size(stack) - 1
          /\ StackPeekStep =>
               /\ clast'.ret = MostRecent(pending)
               /\ stack_size(stack) = 0 => clast'.ret = NULL
               /\ stack_size(stack') = stack_size(stack)
               /\ stack' = stack]_vars

\* A pop has returned an element that differs from the one below it, from a
\* stack whose array has been reallocated.
C21_Witness ==
    /\ clast.op = "pop" /\ clast.ret # NULL
    /\ pending # << >> /\ MostRecent(pending) # clast.ret
    /\ stack.array.capacity \notin {1, DYNARRAY_DEFAULT_CAPACITY, STACK_DEFAULT_CAPACITY}

\* A step that is a queue_dequeue.
QueueDequeueStep == clast'.op = "dequeue" /\ QueueDequeue

\* A step that is a queue_peek.
QueuePeekStep == clast'.op = "peek" /\ QueuePeek

\* What C22 says of a step.
QueueStepIsFifo ==
    /\ QueueDequeueStep =>
         /\ clast'.ret = Earliest(pending)
         /\ queue_size(queue) = 0 => clast'.ret = NULL
    /\ QueuePeekStep =>
         /\ clast'.ret = Earliest(pending)
         /\ queue_size(queue) = 0 => clast'.ret = NULL
         /\ queue_size(queue') = queue_size(queue)

\* ---- C22
\* Queue is FIFO: dequeue returns the earliest enqueued element that has not
\* yet been dequeued, peek returns that element and leaves the size as it
\* was, and dequeue or peek on an empty queue returns NULL.
C22_QueueIsFifo == [][QueueStepIsFifo]_vars

\* C22 while malloc has returned a node to every enqueue: the same, and the
\* queue holds as many elements as are pending.
C22_QueueIsFifoAllocOk ==
    /\ [](~dropped => queue_size(queue) = Len(pending))
    /\ [][~dropped => QueueStepIsFifo]_vars

\* ------------------------------------------------------------ chain checks

\* The position of k in the sequence of inserted keys.
InsertedAt(k) == CHOOSE i \in 1 .. Len(inserted) : inserted[i] = k

\* Every chain of t holds its entries most recently inserted first.
RecentFirst(t) ==
    \A b \in DOMAIN t.buckets :
        \A i \in 1 .. Len(t.buckets[b]), j \in 1 .. Len(t.buckets[b]) :
            i < j => InsertedAt(t.buckets[b][i].key) > InsertedAt(t.buckets[b][j].key)

\* A step that is a put which has linked a new entry for k.
InsertStep(k) ==
    /\ ~HasKey(chained, k) /\ HasKey(chained', k)
    /\ \E entry_ok \in BOOLEAN : ChainPut(k, entry_ok)

\* ---- C23
\* C23: in every reachable state of a table, the entries of each bucket chain
\* appear most recently inserted first.
C23_ChainsAreRecentFirst == RecentFirst(chained)

\* C23 for a table that has not been resized, and for each insertion: the
\* chains of a table that was never resized are most recently inserted first,
\* and a put of a new key links its entry at the head of its chain.
C23_ChainsAreRecentFirstUntilResize ==
    /\ [](~rehashed => RecentFirst(chained))
    /\ [][\A k \in ChainKeys :
            InsertStep(k) =>
                chained'.buckets[hash_int(k, chained'.capacity)][1].key = k]_vars

\* A table that was never resized holds three keys in one chain, the first
\* inserted of which is not the smallest.
C23_Witness ==
    /\ ~rehashed
    /\ \E b \in DOMAIN chained.buckets :
          /\ Len(chained.buckets[b]) = 3
          /\ chained.buckets[b][3].key # 0

\* ------------------------------------------------------------ placement checks

\* Every entry of t is in the bucket its key hashes to with t's capacity.
InOwnBucket(t) ==
    \A b \in DOMAIN t.buckets :
        \A i \in 1 .. Len(t.buckets[b]) :
            hash_int(t.buckets[b][i].key, t.capacity) = b

\* ---- C24
\* C24: in every reachable state of a table, including immediately after a
\* resize, every entry stored in the chain of bucket i satisfies
\* hash(entry.key, current capacity) = i.
C24_EntriesInOwnBucket ==
    /\ DOMAIN table.buckets = 0 .. (table.capacity - 1)
    /\ InOwnBucket(table)

\* A put has just resized the table, and the entries that shared one chain
\* before the resize are now in several buckets.
C24_Witness ==
    /\ lastOp.op = "put" /\ lastOp.resized
    /\ hashtable_size(table) >= 6
    /\ Cardinality({ hash_int(k, table.capacity) : k \in KeysOf(table) \cap {0, 8, 16} }) >= 2

\* ------------------------------------------------------------ membership checks

\* ---- C25
\* C25: contains(k) returns true exactly when the table holds an entry whose
\* key equals k, whatever value that entry stores (including a null value):
\* from a put(k, v) that returned true until k is removed or the table is
\* cleared, contains(k) is true.
C25_ContainsIffPresent ==
    pstate = "live" =>
        \A k \in Keys :
            /\ hashtable_contains(table, k) <=> HasKey(table, k)
            /\ k \in DOMAIN model => hashtable_contains(table, k)

\* C25 for entries that store a value other than NULL: contains(k) returns
\* true exactly when the table holds an entry with key k and such a value.
C25_ContainsIffPresentNotNull ==
    pstate = "live" =>
        \A k \in Keys :
            hashtable_contains(table, k) <=>
                \E e \in Pairs(table) : e.key = k /\ e.value # NULL

\* ------------------------------------------------------------ set algebra checks

Min(a, b) == IF a <= b THEN a ELSE b

\* The size of the smaller of A and B.
SmallerSize == Min(hashset_size(setA), hashset_size(setB))

\* ---- C26
\* C26: each of union, intersection, difference, subset and equality walks
\* only the entries of the operand with the smaller size, so it visits at
\* most min(|A|, |B|) entries.
C26_VisitsAtMostSmaller ==
    alg.op \in {"union", "intersection", "difference", "is_subset", "equals"} =>
        alg.visits <= SmallerSize

\* C26 (amended): intersection visits the entries of the smaller operand,
\* subset and equality visit entries of A only when A is not larger than B,
\* union visits every entry of A and of B, and difference every entry of A.
C26_VisitsPerOperation ==
    /\ alg.op = "intersection" => alg.visits = SmallerSize
    /\ alg.op \in {"is_subset", "equals"} => alg.visits <= SmallerSize
    /\ alg.op = "is_subset" /\ rd.ret = 1 => alg.visits = hashset_size(setA)
    /\ alg.op = "union" => alg.visits = hashset_size(setA) + hashset_size(setB)
    /\ alg.op = "difference" => alg.visits = hashset_size(setA)

\* An intersection has walked B, the smaller operand, and found a common key.
C26_Witness ==
    /\ alg.op = "intersection"
    /\ hashset_size(setB) >= 1
    /\ hashset_size(setA) > hashset_size(setB)
    /\ alg.visits = hashset_size(setB)
    /\ hashset_size(result) >= 1

\* The keys hashset_difference adds to the result.
Rest(set1, set2) == KeysOf(set1) \ KeysOf(set2)

\* A step that is a hashset_difference.
DifferenceStep ==
    /\ setOp'.op = "difference"
    /\ \E ok_keys \in OkKeys : Difference(ok_keys)

\* What C27 says of the result of a difference step.
DifferenceIsExact ==
    /\ KeysOf(result') = Rest(setA, setB)
    /\ \A k \in SetKeys :
          hashset_contains(result', k) <=>
              (hashset_contains(setA, k) /\ ~hashset_contains(setB, k))
    /\ setA' = setA
    /\ setB' = setB

\* ---- C27
\* C27: hashset_difference(A, B, result) on an empty result set leaves result
\* holding exactly the keys that are members of A and not of B, also when A
\* is larger than B, and leaves A and B unchanged.
C27_DifferenceResult == [][DifferenceStep => DifferenceIsExact]_vars

\* C27 when malloc succeeds: the same, for a difference in which every entry
\* was allocated.
C27_DifferenceResultAllocOk ==
    [][DifferenceStep /\ ~setOp'.failed =>
          /\ DifferenceIsExact
          /\ hashset_size(result') = Cardinality(Rest(setA, setB))]_vars

\* ---- C28
\* C28: hashset_is_subset(A, B) returns true exactly when every member of A
\* is a member of B, and hashset_equals(A, B) returns true exactly when A and
\* B have the same members.
C28_SubsetAndEquals ==
    /\ rd.op = "is_subset" => rd.ret = BoolInt(KeysOf(setA) \subseteq KeysOf(setB))
    /\ rd.op = "equals" => rd.ret = BoolInt(KeysOf(setA) = KeysOf(setB))

\* equals has returned false for two sets of the same size, of which A had a
\* member that B had not.
C28_Witness ==
    /\ rd.op = "equals" /\ rd.ret = 0
    /\ hashset_size(setA) = hashset_size(setB)
    /\ hashset_size(setA) >= 2
    /\ KeysOf(setA) \cap KeysOf(setB) # {}

\* ------------------------------------------------------------ frame checks

\* A step that is a clear.
ClearStep == lastOp'.op = "clear" /\ Clear

\* ---- C29
\* C29: clear on a table in any state leaves size 0 and every chain empty
\* (get and contains report absent for every key) with the capacity it had,
\* and a put or get after it behaves as on a freshly initialised table of
\* that capacity.
C29_ClearLeavesFreshTable ==
    [][ClearStep =>
          /\ hashtable_size(table') = 0
          /\ hashtable_is_empty(table')
          /\ table'.capacity = table.capacity
          /\ \A b \in DOMAIN table'.buckets : table'.buckets[b] = << >>
          /\ \A k \in Keys :
                /\ hashtable_get(table', k) = NULL
                /\ ~hashtable_contains(table', k)
                /\ \A v \in Vals, ok \in BOOLEAN :
                      /\ hashtable_put(table', k, v, ok) =
                            hashtable_put(hashtable_init(table.capacity), k, v, ok)
                      /\ hashtable_get(hashtable_put(table', k, v, ok).t, k) =
                            IF ok THEN v ELSE NULL
          /\ table' = hashtable_init(table.capacity)]_vars

\* A clear has emptied a table that had been resized.
C29_Witness ==
    /\ lastOp.op = "clear"
    /\ pstate = "live"
    /\ table.capacity >= HASHTABLE_MIN_SIZE * HASHTABLE_GROWTH_FACTOR
    /\ hashtable_size(table) = 0

\* The entries of the chain whose key is not k, in the chain's order.
RECURSIVE ChainWithout(_, _)
ChainWithout(chain, k) ==
    IF chain = << >> THEN << >>
    ELSE IF Head(chain).key = k THEN ChainWithout(Tail(chain), k)
    ELSE << Head(chain) >> \o ChainWithout(Tail(chain), k)

\* ---- C30
\* C30: remove(k) of a present key leaves every other key's stored value, the
\* relative order of the remaining entries of k's chain, all other chains and
\* the capacity unchanged.
C30_RemoveFrame ==
    [][\A k \in Keys :
          (RemoveStep(k) /\ HasKey(table, k)) =>
              /\ table'.capacity = table.capacity
              /\ \A j \in Keys \ {k} : hashtable_get(table', j) = hashtable_get(table, j)
              /\ \A b \in DOMAIN table.buckets :
                    table'.buckets[b] = ChainWithout(table.buckets[b], k)
              /\ \A b \in DOMAIN table.buckets :
                    b # hash_int(k, table.capacity) => table'.buckets[b] = table.buckets[b]
              /\ Pairs(table') = { e \in Pairs(table) : e.key # k }]_vars

\* A remove of a present key has left two entries in one chain and entries
\* in other chains.
C30_Witness ==
    /\ lastOp.op = "remove" /\ lastOp.ret /\ lastOp.present
    /\ \E b \in DOMAIN table.buckets : Len(table.buckets[b]) >= 2
    /\ Cardinality({ b \in DOMAIN table.buckets : table.buckets[b] # << >> }) >= 2

\* ------------------------------------------------------------ comparator checks

\* -1, 0 or 1 as n is negative, zero or positive.
Sign(n) == IF n < 0 THEN -1 ELSE IF n = 0 THEN 0 ELSE 1

\* -1, 0 or 1 as a < b, a = b or a > b.
Order(a, b) == IF a < b THEN -1 ELSE IF a = b THEN 0 ELSE 1

\* ---- C31
\* C31: with the subtraction wrapping modulo 2^32, heap_int_compare_min(a, b)
\* is negative exactly when a < b, zero exactly when a = b and positive
\* exactly when a > b, and heap_int_compare_max(a, b) has the opposite sign.
C31_ComparatorSign ==
    build = "wrap" =>
        /\ cres.op = "min" => Sign(cres.ret) = Order(ia, ib)
        /\ cres.op = "max" => Sign(cres.ret) = Order(ib, ia)

\* C31 where the subtraction does not overflow: on every build the results
\* have the signs of the order of a and b; and on a build that wraps, the
\* sign is the opposite one exactly when the subtraction overflows.
C31_ComparatorSignWithoutOverflow ==
    /\ (cres.op = "min" /\ ~SubOverflows(ia, ib)) =>
          /\ cres.ret = ia - ib
          /\ Sign(cres.ret) = Order(ia, ib)
    /\ (cres.op = "max" /\ ~SubOverflows(ib, ia)) =>
          /\ cres.ret = ib - ia
          /\ Sign(cres.ret) = Order(ib, ia)
    /\ (cres.op = "min" /\ build = "wrap" /\ SubOverflows(ia, ib)) =>
          Sign(cres.ret) = -Order(ia, ib)
    /\ (cres.op = "max" /\ build = "wrap" /\ SubOverflows(ib, ia)) =>
          Sign(cres.ret) = -Order(ib, ia)

\* ------------------------------------------------------------ validity checks

\* No element but the root is ranked strictly ahead of its parent, seen from
\* the child: heap->compare(child, parent) < 0 for none.
NoChildAhead(h) ==
    \A i \in 1 .. dynarray_size(h.data) - 1 :
        ~(Compare(h.compare, dynarray_get(h.data, i),
                  dynarray_get(h.data, HEAP_PARENT(i)), build) < 0)

\* No comparison of a child with its parent, either way round, overflows.
NoParentChildOverflow(h) ==
    \A i \in 1 .. dynarray_size(h.data) - 1 :
        LET a == IntAt(dynarray_get(h.data, i))
            b == IntAt(dynarray_get(h.data, HEAP_PARENT(i)))
        IN  ~SubOverflows(a, b) /\ ~SubOverflows(b, a)

\* C32: binary_heap_is_valid returns true exactly when, for every index i but
\* the root, the comparator does not rank node[i] strictly ahead of
\* node[(i - 1) / 2] (HeapOrdered: heap->compare(parent, node[i]) > 0 for no i,
\* the lone left child of an even size included); it returns true for sizes 0
\* and 1.  Asked the other way round, heap->compare(node[i], parent) < 0, the
\* comparator gives the same answer wherever the subtraction does not
\* overflow.
C32_IsValidIffHeapOrdered ==
    hlast.op = "is_valid" =>
        /\ hlast.ret = 1 <=> HeapOrdered(heap)
        /\ dynarray_size(heap.data) <= 1 => hlast.ret = 1
        /\ (build = "exact" \/ NoParentChildOverflow(heap))
               => (hlast.ret = 1 <=> NoChildAhead(heap))

\* A heap of an even size was found invalid for its last element, a lone left
\* child, alone.
C32_Witness ==
    /\ hlast = HeapOp("is_valid", 0)
    /\ dynarray_size(heap.data) = 4
    /\ binary_heap_is_valid_FullParents(heap, build)


\* ------------------------------------------------------------ contents checks

\* The bag b with one copy of p more.
BagPlus(b, p) == [q \in Ptrs |-> b[q] + (IF q = p THEN 1 ELSE 0)]

\* The bag b with one copy of p less (b itself for p = NULL).
BagMinus(b, p) == [q \in Ptrs |-> b[q] - (IF q = p THEN 1 ELSE 0)]

\* The number of elements of a bag.
RECURSIVE BagCount(_, _)
BagCount(b, n) == IF n = 0 THEN 0 ELSE b[n] + BagCount(b, n - 1)

\* C33: after any sequence of push, pop and replace the heap holds exactly the
\* multiset of the elements inserted by push and replace less those returned
\* by pop and replace, and size is the number of elements of that multiset:
\* every push adds its element, every pop takes out the element it returns,
\* every replace adds its element and takes out the one it returns, and
\* nothing else changes the contents.
C33_ContentsAreInsertedLessReturned ==
    [][/\ \A e \in Ptrs :
              (hlast'.op = "push" /\ HeapPush(e)) =>
                  BagOf(heap') = BagPlus(BagOf(heap), e)
       /\ (hlast'.op = "pop" /\ HeapPop) =>
              BagOf(heap') = BagMinus(BagOf(heap), hlast'.ret)
       /\ \A e \in Ptrs :
              (hlast'.op = "replace" /\ HeapReplace(e)) =>
                  BagOf(heap') = BagMinus(BagPlus(BagOf(heap), e), hlast'.ret)
       /\ hlast'.op = "peek" => heap' = heap
       /\ hstate' = "live" =>
              binary_heap_size(heap') = BagCount(BagOf(heap'), NumPtrs)]_vars

\* A replace on a heap of three or more elements returned the only copy of an
\* element, and the new element did not stay at the root.
C33_Witness ==
    /\ hlast.op = "replace"
    /\ hlast.ret # NULL
    /\ binary_heap_size(heap) >= 3
    /\ BagOf(heap)[hlast.ret] = 0
    /\ \E i \in 1 .. binary_heap_size(heap) - 1 :
           BagOf(heap)[dynarray_get(heap.data, i)] = 1
           /\ dynarray_get(heap.data, 0) # dynarray_get(heap.data, i)

\* ------------------------------------------------------------ merge loop checks

\* The call of binary_heap_merge has returned, or the process has aborted.
MergeReturned == hstate \in {"merged", "trapped"}

\* The call of binary_heap_merge is executing.
InMerge ==
    hstate \in {"merging", "merging_popped", "merging_self", "merging_self_popped"}

\* C34: binary_heap_merge(heap1, heap2) terminates for every pair of heaps,
\* also when heap1 and heap2 are the same heap, and leaves heap2 empty.
C34_MergeTerminates ==
    /\ InMerge ~> MergeReturned
    /\ [](hstate = "merged" => binary_heap_is_empty(other) \/ binary_heap_is_empty(heap))

\* For two heaps every pass of the loop takes one element out of heap2 and
\* puts nothing back, or returns with heap2 empty, so the call returns after
\* size(heap2) passes; for one heap passed twice the call returns if the heap
\* is empty.
C34_MergeOfTwoHeapsTerminates ==
    [][/\ hstate = "merging" =>
              \/ hstate' = "merged" /\ binary_heap_is_empty(other) /\ other' = other
              \/ hstate' = "trapped"
              \/ /\ hstate' = "merging_popped"
                 /\ binary_heap_size(other') = binary_heap_size(other) - 1
       /\ hstate = "merging_popped" =>
              \/ hstate' = "trapped"
              \/ hstate' = "merging" /\ other' = other
       /\ (hstate = "merging_self" /\ binary_heap_is_empty(heap)) =>
              hstate' = "merged"]_vars

\* A heap that is not empty, passed as both arguments: the element a pass
\* pops is pushed back to it, so it is not empty at the next loop test either,
\* and the call never returns.
C34_SelfMergeRunsOn ==
    [][/\ (hstate = "merging_self" /\ ~binary_heap_is_empty(heap)) =>
              hstate' \in {"merging_self_popped", "trapped"}
       /\ hstate = "merging_self_popped" =>
              \/ hstate' = "trapped"
              \/ hstate' = "merging_self" /\ ~binary_heap_is_empty(heap')]_vars

\* A merge of a heap with itself is back at its loop test, the heap as full as
\* it was.
C34_Witness ==
    /\ hstate = "merging_self"
    /\ hlast.op = "merge_push"
    /\ binary_heap_size(heap) = MaxMergeLen

\* ------------------------------------------------------------ failed put checks

\* C35: whenever hashtable_put returns false, the table's set of (key, value)
\* pairs and its size are the same as before the call, and size still equals
\* the number of entries in the chains.
C35_FailedPutChangesNothing ==
    [][(lastOp'.op = "put" /\ ~lastOp'.ret) =>
           /\ Pairs(table') = Pairs(table)
           /\ hashtable_size(table') = hashtable_size(table)
           /\ hashtable_size(table') = EntryCount(table')
           /\ \A k \in Keys : hashtable_get(table', k) = hashtable_get(table, k)]_vars

\* A put returned false after it had resized a table that holds entries.
C35_Witness ==
    /\ lastOp.op = "put"
    /\ ~lastOp.ret
    /\ lastOp.resized
    /\ hashtable_size(table) >= 2

\* ------------------------------------------------------------ build checks

\* C36: binary_heap_build_from_array(elements, count) on a heap in any state
\* leaves the heap holding exactly the count given elements and nothing else,
\* with the heap-order property holding, for every count >= 0.
C36_BuildResult ==
    hlast.op = "build" =>
        /\ BagOf(heap) = BagOfSeq(arr)
        /\ binary_heap_size(heap) = Len(arr)
        /\ HeapOrdered(heap)

\* What holds: the contents are exactly the given elements; and the heap is
\* ordered by the integers if no comparison of the build has overflowed, and
\* by the comparator as well in an exact build.
C36_BuildResultWithoutOverflow ==
    hlast.op = "build" =>
        /\ BagOf(heap) = BagOfSeq(arr)
        /\ binary_heap_size(heap) = Len(arr)
        /\ ~heap.ub => IntOrdered(heap)
        /\ build = "exact" => IntOrdered(heap) /\ HeapOrdered(heap)

\* ------------------------------------------------------------ basketball checks

\* The Players added.
Added == { players[i] : i \in 1 .. Len(players) }

\* C37: after any sequence of add_player calls, get_youngest_player returns a
\* player whose age is less than or equal to the age of every player added,
\* and get_oldest_player returns a player whose age is greater than or equal
\* to the age of every player added.
C37_YoungestAndOldest ==
    /\ (blast.op = "get_youngest_player" /\ Added # {}) =>
           /\ blast.ret # NULL
           /\ \A q \in Added : AgeOf(blast.ret) <= q.age
    /\ (blast.op = "get_oldest_player" /\ Added # {}) =>
           /\ blast.ret # NULL
           /\ \A q \in Added : AgeOf(blast.ret) >= q.age

\* What the two calls return: the player added first, who has the smallest
\* player_id, and the player added last, who has the largest; NULL if no
\* player has been added.
C37_FirstAndLastAdded ==
    /\ blast.op = "get_youngest_player" =>
           blast.ret = IF Added = {} THEN NULL ELSE players[1].ptr
    /\ blast.op = "get_oldest_player" =>
           blast.ret = IF Added = {} THEN NULL ELSE players[Len(players)].ptr
    /\ \A i \in 1 .. Len(players) - 1 : players[i].player_id < players[i + 1].player_id

\* ------------------------------------------------------------ dynamic array checks

\* A step that is a dynarray_pop which called dynarray_resize and returned.
ShrinkingPop ==
    /\ dlast'.op = "pop"
    /\ dlast'.resized
    /\ DynPop(TRUE)

\* C38: for a DynArray under any sequence of push, pop, set, clear and reserve
\* after init, size <= capacity holds in every state, and a pop that shrinks
\* the capacity leaves the remaining elements and their order unchanged.
C38_SizeWithinCapacity ==
    /\ [](dstate = "live" =>
             /\ dynarray_size(darr) <= darr.capacity
             /\ darr.capacity > 0)
    /\ [][ShrinkingPop =>
             /\ darr'.capacity < darr.capacity
             /\ dynarray_size(darr') = dynarray_size(darr) - 1
             /\ \A i \in 0 .. dynarray_size(darr') - 1 :
                    dynarray_get(darr', i) = dynarray_get(darr, i)
             /\ dlast'.ret = dynarray_get(darr, dynarray_size(darr) - 1)]_vars

\* A pop has halved the capacity of an array that still holds elements, not
\* all of them equal.
C38_Witness ==
    /\ dlast.op = "pop"
    /\ dlast.resized
    /\ darr.capacity = DYNARRAY_DEFAULT_CAPACITY
    /\ dynarray_size(darr) >= 3
    /\ \E i \in 1 .. dynarray_size(darr) - 1 :
           dynarray_get(darr, i) # dynarray_get(darr, 0)
====
